---- MODULE Spec2Model ----
(***************************************************************************)
(* Recommendation and workflow composition engine of stats_solver:         *)
(* SkillMatcher, RecommendationScorer, PrerequisiteChecker,                *)
(* SkillChainBuilder and AlternativeFinder.                                *)
(*                                                                         *)
(* Conventions of the model                                                *)
(*  - Python str values are TLA+ strings; "x in s" is Contains(x, s).      *)
(*  - Optional[str] fields that the code only tests for truthiness hold    *)
(*    "" for None.                                                         *)
(*  - Scores are exact decimals in fixed point: sub-scores in tenths,      *)
(*    composite scores and confidences in thousandths, final scores in     *)
(*    units of 1/FinalOne.                                                 *)
(*  - The iteration order of a Python set of strings depends on the        *)
(*    interpreter's hash seed; hashSeed stands for it.                     *)
(*  - A call that raises leaves a record with status "raised".             *)
(***************************************************************************)
EXTENDS Integers, Sequences, FiniteSets, TLC

VARIABLES skills, hashSeed, problem, matchOut, recOut, prereqOut, chainOut, altOut,
          filterOut, editOut, indexMeta

vars ==
    <<skills, hashSeed, problem, matchOut, recOut, prereqOut, chainOut, altOut,
      filterOut, editOut, indexMeta>>

(***************************************************************************)
(* Bounds                                                                  *)
(***************************************************************************)
MaxSkills == 3
MaxK == 3
MaxUsage == 1

\* operations on the index in one behaviour
MaxOps == 3

(***************************************************************************)
(* Python built-ins                                                        *)
(***************************************************************************)
Min(a, b) == IF a <= b THEN a ELSE b
Max(a, b) == IF a >= b THEN a ELSE b

Range(s) == {s[i] : i \in 1..Len(s)}

\* sub in s, for str
Contains(sub, s) ==
    \E i \in 1..(Len(s) - Len(sub) + 1) : SubSeq(s, i, i + Len(sub) - 1) = sub

UpperChars == "ABCDEFGHIJKLMNOPQRSTUVWXYZ"
LowerChars == "abcdefghijklmnopqrstuvwxyz"

UpperSet == {SubSeq(UpperChars, i, i) : i \in 1..26}
LowerSet == {SubSeq(LowerChars, i, i) : i \in 1..26}

LowerChar(c) ==
    IF c \in UpperSet
    THEN LET i == CHOOSE j \in 1..26 : SubSeq(UpperChars, j, j) = c
         IN SubSeq(LowerChars, i, i)
    ELSE c

RECURSIVE LowerEach(_)
LowerEach(s) ==
    IF Len(s) = 0 THEN ""
    ELSE LowerChar(SubSeq(s, 1, 1)) \o LowerEach(SubSeq(s, 2, Len(s)))

\* str.lower()
Lower(s) ==
    IF \E i \in 1..Len(s) : SubSeq(s, i, i) \in UpperSet THEN LowerEach(s) ELSE s

\* s.startswith(prefix)
StartsWith(s, prefix) ==
    Len(s) >= Len(prefix) /\ SubSeq(s, 1, Len(prefix)) = prefix

RECURSIVE Join(_, _)
\* sep.join(items)
Join(sep, items) ==
    IF Len(items) = 0 THEN ""
    ELSE IF Len(items) = 1 THEN items[1]
    ELSE items[1] \o sep \o Join(sep, Tail(items))

RECURSIVE SplitFrom(_, _, _)
SplitFrom(s, sep, acc) ==
    IF Len(s) = 0 THEN <<acc>>
    ELSE IF SubSeq(s, 1, 1) = sep
         THEN <<acc>> \o SplitFrom(SubSeq(s, 2, Len(s)), sep, "")
         ELSE SplitFrom(SubSeq(s, 2, Len(s)), sep, acc \o SubSeq(s, 1, 1))

\* s.split(sep) for a one-character separator
Split(s, sep) == SplitFrom(s, sep, "")

MapLower(items) == [i \in 1..Len(items) |-> Lower(items[i])]

\* lst[:k + 1]
SliceInclusive(lst, k) ==
    IF k >= 0
    THEN SubSeq(lst, 1, Min(k + 1, Len(lst)))
    ELSE SubSeq(lst, 1, Max(Len(lst) + k + 1, 0))

\* lst[:k], negative k counted from the end
SliceTo(lst, k) ==
    IF k >= 0
    THEN SubSeq(lst, 1, Min(k, Len(lst)))
    ELSE SubSeq(lst, 1, Max(Len(lst) + k, 0))

\* sorted(lst, key=lambda r: r.<key>, reverse=True): stable, descending
SortDesc(lst, key) ==
    LET n == Len(lst)
        pos(i) == Cardinality({j \in 1..n : lst[j][key] > lst[i][key]})
                  + Cardinality({j \in 1..(i - 1) : lst[j][key] = lst[i][key]})
                  + 1
    IN [p \in 1..n |-> lst[CHOOSE i \in 1..n : pos(i) = p]]

Reverse(lst) == [i \in 1..Len(lst) |-> lst[Len(lst) + 1 - i]]

\* first occurrences of lst, in order
RECURSIVE Distinct(_)
Distinct(lst) ==
    IF Len(lst) = 0 THEN <<>>
    ELSE LET front == Distinct(SubSeq(lst, 1, Len(lst) - 1))
             last == lst[Len(lst)]
         IN IF last \in Range(front) THEN front ELSE Append(front, last)

\* iteration order of set(lst) under the interpreter's hash seed
SetOrder(lst, seed) == IF seed = 0 THEN Distinct(lst) ELSE Reverse(Distinct(lst))

\* set(a) & set(b), listed in iteration order
Overlap(a, b, seed) ==
    LET InB(x) == x \in Range(b)
    IN SetOrder(SelectSeq(a, InB), seed)

AnyKeyword(keywords, text) == \E i \in 1..Len(keywords) : Contains(keywords[i], text)

(***************************************************************************)
(* Skill descriptors (skills/metadata_schema.py)                           *)
(***************************************************************************)
SkillCategory ==
    {"statistical_method", "mathematical_implementation", "data_analysis",
     "visualization", "algorithm"}

\* the property SkillCategory.type_group
category_type_group(category) ==
    IF category \in {"statistical_method", "data_analysis", "visualization"}
    THEN "problem_solving"
    ELSE "programming"

DataType == {"numerical", "categorical", "time_series", "text", "boolean", "mixed"}

\* SkillMetadata with its field defaults; id, name and description are required
SkillMetadata(id, name, category, description) ==
    [id |-> id, name |-> name, category |-> category,
     type_group |-> "problem_solving", tags |-> <<>>,
     input_data_types |-> <<>>, output_format |-> "",
     description |-> description, dependencies |-> <<>>,
     prerequisites |-> <<>>, use_cases |-> <<>>,
     statistical_concept |-> "", complexity |-> "", confidence |-> 1000,
     source |-> "manual"]

(***************************************************************************)
(* SkillMatcher (recommendation/matcher.py)                                *)
(***************************************************************************)
WEIGHTS ==
    [category_match |-> 30, data_type_match |-> 25, problem_type_match |-> 20,
     output_format_match |-> 10, tag_relevance |-> 10,
     statistical_concept_match |-> 5]

category_map ==
    [hypothesis_test |-> "statistical_method",
     one_sample_test |-> "statistical_method",
     two_sample_test |-> "statistical_method",
     anova |-> "statistical_method",
     chi_square |-> "statistical_method",
     regression |-> "statistical_method",
     correlation |-> "statistical_method",
     classification |-> "statistical_method",
     clustering |-> "statistical_method",
     descriptive |-> "statistical_method",
     distribution_analysis |-> "statistical_method",
     optimization |-> "mathematical_implementation",
     simulation |-> "mathematical_implementation",
     time_series |-> "statistical_method",
     forecasting |-> "statistical_method"]

_match_category(skill, problem_features) ==
    LET known == problem_features.problem_type \in DOMAIN category_map
        expected_category ==
            IF known THEN category_map[problem_features.problem_type] ELSE ""
    IN IF known /\ skill.category = expected_category
       THEN [score |-> 10, reason |-> "Category matches: " \o skill.category]
       ELSE IF skill.category = "statistical_method"
       THEN [score |-> 7,
             reason |-> "Statistical method applicable to "
                        \o problem_features.problem_type]
       ELSE [score |-> 3,
             reason |-> "Category may not be optimal for this problem type"]

_match_data_types(skill, problem_features, seed) ==
    LET skill_types == Range(skill.input_data_types)
        problem_types == Range(problem_features.data_types)
        overlap == Overlap(skill.input_data_types, problem_features.data_types, seed)
    IN IF skill.input_data_types = <<>> \/ problem_features.data_types = <<>>
       THEN [score |-> 5, reason |-> "Data type compatibility unclear"]
       ELSE IF "mixed" \in skill_types
       THEN [score |-> 10, reason |-> "Skill supports mixed data types"]
       ELSE IF "mixed" \in problem_types /\ skill_types \cap problem_types # {}
       THEN [score |-> 7, reason |-> "Supports " \o Join(", ", overlap)]
       ELSE IF skill_types \cap problem_types # {}
       THEN IF Cardinality(skill_types \cap problem_types) = Cardinality(problem_types)
            THEN [score |-> 10,
                  reason |-> "Fully compatible data types: " \o Join(", ", overlap)]
            ELSE [score |-> 6,
                  reason |-> "Partially compatible: " \o Join(", ", overlap)]
       ELSE [score |-> 2, reason |-> "Data type mismatch"]

_match_problem_type(skill, problem_type) ==
    LET problem_type_keywords == Split(problem_type, "_")
        skill_text == Join(" ", <<Lower(skill.name), Lower(skill.description),
                                  Join(" ", MapLower(skill.tags))>>)
        matches == Cardinality({i \in 1..Len(problem_type_keywords) :
                                   Contains(problem_type_keywords[i], skill_text)})
    IN IF matches >= 2
       THEN [score |-> 10, reason |-> "Directly addresses " \o problem_type]
       ELSE IF matches = 1
       THEN [score |-> 7, reason |-> "Related to " \o problem_type]
       ELSE IF skill.statistical_concept # ""
               /\ AnyKeyword(problem_type_keywords, Lower(skill.statistical_concept))
       THEN [score |-> 6,
             reason |-> "Statistical concept matches: " \o skill.statistical_concept]
       ELSE [score |-> 4, reason |-> "May be applicable to " \o problem_type]

format_keywords(output_format) ==
    CASE output_format = "plot" -> <<"plot", "graph", "chart", "visual", "figure">>
      [] output_format = "table" -> <<"table", "dataframe", "tabular">>
      [] output_format = "number" -> <<"number", "value", "result", "scalar">>
      [] output_format = "text" -> <<"text", "report", "summary", "explain">>
      [] OTHER -> <<>>

\* _match_output_format giving no reason when the format does not fit
OutputFormatNoReason(skill, output_format) ==
    IF output_format = "" \/ output_format = "unknown"
    THEN [score |-> 10, reason |-> "No specific output format required"]
    ELSE IF skill.output_format # ""
            /\ Contains(Lower(output_format), Lower(skill.output_format))
    THEN [score |-> 10, reason |-> "Output format matches: " \o skill.output_format]
    ELSE [score |-> 5, reason |-> ""]

_match_output_format(skill, output_format) ==
    LET skill_format == Lower(skill.output_format)
        required_format == Lower(output_format)
        keywords == format_keywords(output_format)
    IN IF output_format = "" \/ output_format = "unknown"
       THEN [score |-> 10, reason |-> "No specific output format required"]
       ELSE IF Contains(required_format, skill_format)
               \/ Contains(skill_format, required_format)
       THEN [score |-> 10,
             reason |-> "Output format matches: "
                        \o (IF skill.output_format = "" THEN "None"
                            ELSE skill.output_format)]
       ELSE IF \E i \in 1..Len(keywords) :
                  \/ Contains(keywords[i], Lower(skill.description))
                  \/ Contains(keywords[i], Lower(Join(" ", skill.tags)))
       THEN [score |-> 8, reason |-> "Can produce " \o output_format \o " output"]
       ELSE [score |-> 5, reason |-> "Output format compatibility uncertain"]

_match_tags(skill, problem_features, seed) ==
    LET skill_tags == MapLower(skill.tags)
        problem_keywords == MapLower(problem_features.context_keywords)
        matches == Overlap(skill_tags, problem_keywords, seed)
        keyword_order == SetOrder(problem_keywords, seed)
        relevant == {i \in 1..Len(skill.use_cases) :
                        AnyKeyword(keyword_order, Lower(skill.use_cases[i]))}
    IN IF skill.tags = <<>> \/ problem_features.context_keywords = <<>>
       THEN [score |-> 5, reason |-> "Tag relevance unclear"]
       ELSE IF Len(matches) >= 2
       THEN [score |-> 10, reason |-> "Tags match: " \o Join(", ", matches)]
       ELSE IF Len(matches) = 1
       THEN [score |-> 7, reason |-> "Tag match: " \o Join(", ", matches)]
       ELSE IF relevant # {}
       THEN LET first == CHOOSE i \in relevant : \A j \in relevant : i <= j
            IN [score |-> 6,
                reason |-> "Use case relevant: "
                           \o SliceTo(skill.use_cases[first], 50)]
       ELSE [score |-> 4, reason |-> "No direct tag matches"]

related_terms ==
    [hypothesis_testing |-> <<"test", "hypothesis", "significant", "p-value">>,
     regression |-> <<"predict", "model", "relationship", "fit">>,
     correlation |-> <<"correlate", "relationship", "association">>,
     clustering |-> <<"cluster", "group", "segment">>,
     distribution_analysis |-> <<"distribution", "normality", "shape">>]

_match_statistical_concept(skill, problem_features) ==
    LET concept_lower == Lower(skill.statistical_concept)
        problem_text == Join(" ", <<Lower(problem_features.description),
                                    Lower(problem_features.primary_goal),
                                    Join(" ", problem_features.context_keywords)>>)
    IN IF skill.statistical_concept = ""
       THEN [score |-> 5, reason |-> "No statistical concept specified"]
       ELSE IF Contains(concept_lower, problem_text)
       THEN [score |-> 10,
             reason |-> "Statistical concept directly matches: "
                        \o skill.statistical_concept]
       ELSE IF skill.statistical_concept \in DOMAIN related_terms
               /\ AnyKeyword(related_terms[skill.statistical_concept], problem_text)
       THEN [score |-> 7, reason |-> "Related to " \o skill.statistical_concept]
       ELSE [score |-> 5,
             reason |-> "Statistical concept: " \o skill.statistical_concept]

\* the six (score, reason) pairs of _match_single_skill, keyed as in scores
SubScores(skill, problem_features, problem_type, output_format, seed) ==
    [category_match |-> _match_category(skill, problem_features),
     data_type_match |-> _match_data_types(skill, problem_features, seed),
     problem_type_match |-> _match_problem_type(skill, problem_type),
     output_format_match |-> _match_output_format(skill, output_format),
     tag_relevance |-> _match_tags(skill, problem_features, seed),
     statistical_concept_match |-> _match_statistical_concept(skill, problem_features)]

ScoreKeys ==
    <<"category_match", "data_type_match", "problem_type_match",
      "output_format_match", "tag_relevance", "statistical_concept_match">>

RECURSIVE WeightedSum(_, _)
WeightedSum(sub, keys) ==
    IF Len(keys) = 0 THEN 0
    ELSE sub[Head(keys)].score * WEIGHTS[Head(keys)] + WeightedSum(sub, Tail(keys))

_match_single_skill(skill, problem_features, problem_type, output_format, seed) ==
    LET sub == SubScores(skill, problem_features, problem_type, output_format, seed)
        all_reasons == [i \in 1..Len(ScoreKeys) |-> sub[ScoreKeys[i]].reason]
        NonEmpty(r) == r # ""
        match_reasons == SelectSeq(all_reasons, NonEmpty)
        mismatches == IF sub.output_format_match.reason = ""
                      THEN <<"Output format mismatch">> ELSE <<>>
    IN [skill |-> skill,
        score |-> WeightedSum(sub, ScoreKeys),
        match_reasons |-> match_reasons,
        mismatches |-> mismatches,
        confidence |-> Min(250 * Len(match_reasons), 1000),
        sub_scores |-> [k \in DOMAIN sub |-> sub[k].score]]

\* the sort key of match: lambda r: r.score
ScoreOf == "score"

\* match dropping the skills whose category does not fit the problem
MatchFittingOnly(skill_list, problem_features, problem_type, output_format, top_k, seed) ==
    LET Fits(skill) == _match_category(skill, problem_features).score > 3
        fitting == SelectSeq(skill_list, Fits)
        results == [i \in 1..Len(fitting) |->
                       _match_single_skill(fitting[i], problem_features,
                                           problem_type, output_format, seed)]
    IN SliceTo(SortDesc(results, ScoreOf), top_k)

match(skill_list, problem_features, problem_type, output_format, top_k, seed) ==
    LET results == [i \in 1..Len(skill_list) |->
                       _match_single_skill(skill_list[i], problem_features,
                                           problem_type, output_format, seed)]
    IN SliceTo(SortDesc(results, ScoreOf), top_k)

(***************************************************************************)
(* RecommendationScorer (recommendation/scorer.py)                         *)
(***************************************************************************)
RankingMethod ==
    {"weighted_score", "confidence_score", "balanced", "popularity", "recently_used"}

RECURSIVE Factorial(_)
Factorial(n) == IF n <= 1 THEN 1 ELSE n * Factorial(n - 1)

\* a common denominator of every usage ratio usage_count / max_usage
UsageDen == Factorial(MaxUsage)

\* the final score 1.0
FinalOne == 10000 * UsageDen

\* max(self.skill_usage_history.values()) if self.skill_usage_history else 1
MaxUsageOf(skill_usage_history) ==
    IF DOMAIN skill_usage_history = {} THEN 1
    ELSE CHOOSE m \in {skill_usage_history[k] : k \in DOMAIN skill_usage_history} :
            \A k \in DOMAIN skill_usage_history : skill_usage_history[k] <= m

\* usage_count / max_usage if max_usage > 0 else 0, in units of 1/UsageDen
UsageRatio(skill_id, skill_usage_history) ==
    LET usage_count == IF skill_id \in DOMAIN skill_usage_history
                       THEN skill_usage_history[skill_id] ELSE 0
        max_usage == MaxUsageOf(skill_usage_history)
    IN IF max_usage > 0 THEN (usage_count * UsageDen) \div max_usage ELSE 0

_calculate_final_score(match_result, ranking_method, skill_usage_history) ==
    CASE ranking_method = "weighted_score" ->
            match_result.score * 10 * UsageDen
      [] ranking_method = "confidence_score" ->
            match_result.confidence * 10 * UsageDen
      [] ranking_method = "balanced" ->
            (match_result.score * 7 + match_result.confidence * 3) * UsageDen
      [] ranking_method = "popularity" ->
            match_result.score * 7 * UsageDen
            + UsageRatio(match_result.skill.id, skill_usage_history) * 3000
      [] ranking_method = "recently_used" ->
            match_result.score * 8 * UsageDen
            + UsageRatio(match_result.skill.id, skill_usage_history) * 2000
      [] OTHER -> match_result.score * 10 * UsageDen

\* the sort key of _rank_recommendations: lambda r: r.final_score
FinalScoreOf == "final_score"

\* _rank_recommendations without the sort
RankUnsorted(recommendations) == recommendations

_rank_recommendations(recommendations) == SortDesc(recommendations, FinalScoreOf)

score_recommendations(match_results, max_recommendations, ranking_method, skill_usage_history) ==
    LET recommendations ==
            [i \in 1..Len(match_results) |->
                [skill |-> match_results[i].skill,
                 match_score |-> match_results[i].score,
                 confidence |-> match_results[i].confidence,
                 final_score |-> _calculate_final_score(match_results[i],
                                     ranking_method, skill_usage_history),
                 match_reasons |-> match_results[i].match_reasons,
                 mismatches |-> match_results[i].mismatches,
                 ranking_position |-> 0,
                 ranking_method |-> ranking_method]]
        ranked == _rank_recommendations(recommendations)
        positioned == [i \in 1..Len(ranked) |->
                          [ranked[i] EXCEPT !.ranking_position = i]]
    IN SliceTo(positioned, max_recommendations)

(***************************************************************************)
(* PrerequisiteChecker (recommendation/prerequisites.py)                   *)
(***************************************************************************)
IsLetter(c) == c \in UpperSet \/ c \in LowerSet

UpperChar(c) ==
    IF c \in LowerSet
    THEN LET i == CHOOSE j \in 1..26 : SubSeq(LowerChars, j, j) = c
         IN SubSeq(UpperChars, i, i)
    ELSE c

RECURSIVE TitleFrom(_, _)
TitleFrom(s, inWord) ==
    IF Len(s) = 0 THEN ""
    ELSE LET c == SubSeq(s, 1, 1)
         IN (IF inWord THEN LowerChar(c) ELSE UpperChar(c))
            \o TitleFrom(SubSeq(s, 2, Len(s)), IsLetter(c))

\* str.title()
Title(s) == TitleFrom(s, FALSE)

RECURSIVE Replace(_, _, _)
\* s.replace(old, new) for a one-character old
Replace(s, old, new) ==
    IF Len(s) = 0 THEN ""
    ELSE (IF SubSeq(s, 1, 1) = old THEN new ELSE SubSeq(s, 1, 1))
         \o Replace(SubSeq(s, 2, Len(s)), old, new)

\* the ids of available_map = {s.id: s for s in available_skills}, in key order
AvailableIds(available_skills) ==
    Distinct([i \in 1..Len(available_skills) |-> available_skills[i].id])

\* available_map[skill_id]: the last skill stored under the id
AvailableSkill(available_skills, skill_id) ==
    LET idx == {i \in 1..Len(available_skills) : available_skills[i].id = skill_id}
    IN available_skills[CHOOSE i \in idx : \A j \in idx : j <= i]

\* similarity by a shared first word of the ids instead of containment
SimilarByFirstWord(prereq_id, available_skills) ==
    LET ids == AvailableIds(available_skills)
        IsSimilar(skill_id) ==
            Split(Lower(skill_id), "-")[1] = Split(Lower(prereq_id), "-")[1]
        similar_ids == SelectSeq(ids, IsSimilar)
        similar == [i \in 1..Len(similar_ids) |->
                       AvailableSkill(available_skills, similar_ids[i]).name]
    IN SliceTo(similar, 3)

_find_similar_skills(prereq_id, available_skills) ==
    LET prereq_lower == Lower(prereq_id)
        ids == AvailableIds(available_skills)
        IsSimilar(skill_id) ==
            \/ Contains(prereq_lower, Lower(skill_id))
            \/ Contains(Lower(skill_id), prereq_lower)
        similar_ids == SelectSeq(ids, IsSimilar)
        similar == [i \in 1..Len(similar_ids) |->
                       AvailableSkill(available_skills, similar_ids[i]).name]
    IN SliceTo(similar, 3)

_check_single_prerequisite(prereq_id, available_skills) ==
    IF prereq_id \in Range(AvailableIds(available_skills))
    THEN LET prereq_skill == AvailableSkill(available_skills, prereq_id)
         IN [skill_id |-> prereq_id,
             skill_name |-> prereq_skill.name,
             description |-> prereq_skill.description,
             status |-> "satisfied",
             confidence |-> 10]
    ELSE LET similar == _find_similar_skills(prereq_id, available_skills)
         IN IF similar # <<>>
            THEN [skill_id |-> prereq_id,
                  skill_name |-> Title(Replace(prereq_id, "-", " ")),
                  description |-> "Similar to: " \o Join(", ", similar),
                  status |-> "partial",
                  confidence |-> 5]
            ELSE [skill_id |-> prereq_id,
                  skill_name |-> Title(Replace(prereq_id, "-", " ")),
                  description |-> "Prerequisite not found",
                  status |-> "missing",
                  confidence |-> 0]

_infer_implicit_prerequisites(skill, available_skills) ==
    LET ids == [i \in 1..Len(available_skills) |-> available_skills[i].id]
        declared == {i \in 1..Len(available_skills) :
                        available_skills[i].id \in Range(skill.prerequisites)}
        IsDescriptive(skill_id) ==
            Contains("descriptive", Lower(skill_id)) \/ Contains("summary", Lower(skill_id))
        IsCorrelation(skill_id) == Contains("correlation", Lower(skill_id))
        descriptive_skills == SelectSeq(ids, IsDescriptive)
        correlation_skills == SelectSeq(ids, IsCorrelation)
        scipy_idx == {i \in 1..Len(available_skills) :
                         /\ "scipy" \in Range(available_skills[i].dependencies)
                         /\ available_skills[i].id # skill.id}
        UsesScipy(skill_id) == \E i \in scipy_idx : available_skills[i].id = skill_id
        scipy_skills == [i \in 1..Cardinality(scipy_idx) |->
                            ids[CHOOSE j \in scipy_idx :
                                   Cardinality({m \in scipy_idx : m <= j}) = i]]
        from_category ==
            IF /\ skill.category = "statistical_method"
               /\ ~\E i \in declared : Contains("descriptive", Lower(available_skills[i].id))
            THEN SliceTo(descriptive_skills, 1)
            ELSE <<>>
        from_regression ==
            IF /\ Contains("regression", Lower(skill.id))
               /\ ~\E i \in declared : Contains("correlation", Lower(available_skills[i].id))
            THEN SliceTo(correlation_skills, 1)
            ELSE <<>>
        from_dependencies ==
            IF "scipy" \in Range(skill.dependencies)
            THEN SliceTo(scipy_skills, 2)
            ELSE <<>>
    IN from_category \o from_regression \o from_dependencies

\* the loop body without the count of missing prerequisites
CountSatisfiedOnly(acc, prereq_id, available_skills) ==
    LET prereq == _check_single_prerequisite(prereq_id, available_skills)
    IN [prerequisites |-> Append(acc.prerequisites, prereq),
        satisfied_count |-> IF prereq.status = "satisfied"
                            THEN acc.satisfied_count + 1 ELSE acc.satisfied_count,
        missing_count |-> acc.missing_count]

\* one pass of the loop body: check prereq_id, append it, count its status
CheckAndCount(acc, prereq_id, available_skills) ==
    LET prereq == _check_single_prerequisite(prereq_id, available_skills)
    IN [prerequisites |-> Append(acc.prerequisites, prereq),
        satisfied_count |-> IF prereq.status = "satisfied"
                            THEN acc.satisfied_count + 1 ELSE acc.satisfied_count,
        missing_count |-> IF prereq.status = "missing"
                          THEN acc.missing_count + 1 ELSE acc.missing_count]

RECURSIVE CheckEach(_, _, _)
\* for prereq_id in prereq_ids: ...
CheckEach(acc, prereq_ids, available_skills) ==
    IF Len(prereq_ids) = 0 THEN acc
    ELSE CheckEach(CheckAndCount(acc, Head(prereq_ids), available_skills),
                   Tail(prereq_ids), available_skills)

\* check_prerequisites with all_satisfied demanding every prerequisite satisfied
CheckAllSatisfiedStrict(skill, available_skills) ==
    LET start == [prerequisites |-> <<>>, satisfied_count |-> 0, missing_count |-> 0]
        explicit == CheckEach(start, skill.prerequisites, available_skills)
        NotDeclared(prereq_id) == prereq_id \notin Range(skill.prerequisites)
        implicit_prereqs ==
            SelectSeq(_infer_implicit_prerequisites(skill, available_skills),
                      NotDeclared)
        checked == CheckEach(explicit, implicit_prereqs, available_skills)
    IN [skill |-> skill,
        all_satisfied |-> (checked.satisfied_count = Len(checked.prerequisites)),
        prerequisites |-> checked.prerequisites,
        missing_count |-> checked.missing_count,
        satisfied_count |-> checked.satisfied_count,
        warning_message |-> ""]

check_prerequisites(skill, available_skills) ==
    LET start == [prerequisites |-> <<>>, satisfied_count |-> 0, missing_count |-> 0]
        explicit == CheckEach(start, skill.prerequisites, available_skills)
        NotDeclared(prereq_id) == prereq_id \notin Range(skill.prerequisites)
        implicit_prereqs ==
            SelectSeq(_infer_implicit_prerequisites(skill, available_skills),
                      NotDeclared)
        checked == CheckEach(explicit, implicit_prereqs, available_skills)
    IN [skill |-> skill,
        all_satisfied |-> (checked.missing_count = 0),
        prerequisites |-> checked.prerequisites,
        missing_count |-> checked.missing_count,
        satisfied_count |-> checked.satisfied_count,
        warning_message |->
            IF checked.missing_count > 0
            THEN "Missing " \o ToString(checked.missing_count) \o " prerequisite(s)"
            ELSE ""]

\* check_prerequisites_sync: the declared prerequisites only
check_prerequisites_sync(skill, available_skills) ==
    LET start == [prerequisites |-> <<>>, satisfied_count |-> 0, missing_count |-> 0]
        checked == CheckEach(start, skill.prerequisites, available_skills)
    IN [skill |-> skill,
        all_satisfied |-> (checked.missing_count = 0),
        prerequisites |-> checked.prerequisites,
        missing_count |-> checked.missing_count,
        satisfied_count |-> checked.satisfied_count,
        warning_message |->
            IF checked.missing_count > 0
            THEN "Missing " \o ToString(checked.missing_count) \o " prerequisite(s)"
            ELSE ""]

filter_by_prerequisites(skill_list, available_skills, require_all) ==
    LET Keep(skill) ==
            LET result == check_prerequisites_sync(skill, available_skills)
                total == Len(result.prerequisites)
            IN IF require_all
               THEN result.all_satisfied
               \* satisfied_count >= total / 2
               ELSE total = 0 \/ 2 * result.satisfied_count >= total
    IN SelectSeq(skill_list, Keep)

(***************************************************************************)
(* SkillChainBuilder (recommendation/chain_builder.py)                     *)
(***************************************************************************)
ChainStepType ==
    {"preparation", "core_analysis", "post_processing", "validation", "visualization"}

\* ProblemType values (problem/classifier.py)
ProblemType ==
    {"hypothesis_test", "one_sample_test", "two_sample_test", "anova", "chi_square",
     "regression", "linear_regression", "logistic_regression", "correlation",
     "classification", "clustering", "descriptive", "distribution_analysis",
     "optimization", "minimization", "maximization", "simulation", "monte_carlo",
     "bootstrap", "time_series", "forecasting", "unknown", "multi_step"}

WORKFLOW_PATTERNS ==
    [hypothesis_test |-> <<"preparation", "core_analysis", "validation", "visualization">>,
     regression |-> <<"preparation", "core_analysis", "validation", "visualization">>,
     classification |-> <<"preparation", "core_analysis", "post_processing", "visualization">>,
     descriptive |-> <<"preparation", "core_analysis", "visualization">>,
     optimization |-> <<"preparation", "core_analysis", "validation">>,
     simulation |-> <<"preparation", "core_analysis", "post_processing", "visualization">>]

\* a pattern without the core_analysis slot
PatternWithoutCore(problem_type) == <<"preparation", "visualization">>

\* WORKFLOW_PATTERNS.get(problem_type, default)
PatternFor(problem_type) ==
    IF problem_type \in DOMAIN WORKFLOW_PATTERNS
    THEN WORKFLOW_PATTERNS[problem_type]
    ELSE <<"preparation", "core_analysis", "visualization">>

StepKeywords(step_type) ==
    CASE step_type = "preparation" -> <<"load", "clean", "prepare", "validate", "preprocess">>
      [] step_type = "validation" -> <<"validate", "check", "test", "assumption", "diagnostic">>
      [] step_type = "post_processing" -> <<"post", "process", "transform", "format", "export">>
      [] step_type = "visualization" -> <<"plot", "graph", "chart", "visualize", "display">>
      [] OTHER -> <<>>

\* the skills of _find_skills_for_step, or the exception it raises
_find_skills_for_step(step_type, core_skill, available_skills, problem_features) ==
    LET keywords == StepKeywords(step_type)
        ByIdOrDescription(skill) ==
            /\ skill.id # core_skill.id
            /\ \E i \in 1..Len(keywords) :
                  \/ Contains(keywords[i], Lower(skill.id))
                  \/ Contains(keywords[i], Lower(skill.description))
        ByIdDescriptionOrTags(skill) ==
            /\ skill.id # core_skill.id
            /\ \E i \in 1..Len(keywords) :
                  \/ Contains(keywords[i], Lower(skill.id))
                  \/ Contains(keywords[i], Lower(skill.description))
                  \/ Contains(keywords[i], Lower(Join(" ", skill.tags)))
    IN CASE step_type = "core_analysis" ->
               [error |-> "", skills |-> <<core_skill>>]
         [] step_type \in {"preparation", "validation", "post_processing"} ->
               [error |-> "",
                skills |-> SliceTo(SelectSeq(available_skills, ByIdOrDescription), 3)]
         [] step_type = "visualization" ->
               IF problem_features.requires_visualization
               THEN [error |-> "",
                     skills |-> SliceTo(SelectSeq(available_skills,
                                                  ByIdDescriptionOrTags), 3)]
               \* "skill in core_skill.tags" reads the local skill before any
               \* loop of the function has bound it
               ELSE [error |-> "UnboundLocalError", skills |-> <<>>]
         [] OTHER -> [error |-> "", skills |-> <<>>]

\* _determine_dependencies naming the step being added among its dependencies
DependOnSelf(skill, existing_steps, current_order, seed) ==
    [error |-> "", depends_on |-> <<"step_" \o ToString(current_order)>>]

\* the depends_on of _determine_dependencies, or the exception it raises
_determine_dependencies(skill, existing_steps, current_order, seed) ==
    LET pairs == {<<p, e>> : p \in 1..Len(skill.prerequisites), e \in 1..Len(existing_steps)}
        hits == {pe \in pairs : skill.prerequisites[pe[1]] = existing_steps[pe[2]].skill.id}
        \* the hits in loop order: prerequisites outer, existing steps inner
        rank(pe) == (pe[1] - 1) * Len(existing_steps) + pe[2]
        explicit == [i \in 1..Cardinality(hits) |->
                        LET pe == CHOOSE h \in hits :
                                     Cardinality({g \in hits : rank(g) <= rank(h)}) = i
                        IN "step_" \o ToString(existing_steps[pe[2]].order)]
    IN IF existing_steps # <<>>
       \* "s.id" of the any(...) is read on a ChainStep, which has no id
       THEN [error |-> "AttributeError", depends_on |-> <<>>]
       ELSE [error |-> "", depends_on |-> SetOrder(explicit, seed)]

_generate_step_description(skill, step_type) ==
    LET prefix == CASE step_type = "preparation" -> "Prepare data"
                    [] step_type = "core_analysis" -> "Perform analysis"
                    [] step_type = "post_processing" -> "Process results"
                    [] step_type = "validation" -> "Validate assumptions"
                    [] step_type = "visualization" -> "Visualize results"
                    [] OTHER -> "Execute"
    IN prefix \o ": " \o skill.description

_estimate_step_time(skill) ==
    IF /\ skill.complexity # ""
       /\ Contains("O(n)", skill.complexity)
       /\ ~Contains("log", skill.complexity)
       /\ StartsWith(skill.complexity, "O(n^2)")
    THEN "1-5 minutes"
    ELSE "< 1 minute"

RECURSIVE AddSteps(_, _, _, _)
\* for skill in step_skills: ...; acc holds steps and the exception raised, if any
AddSteps(acc, step_skills, step_type, seed) ==
    IF acc.error # "" \/ Len(step_skills) = 0 THEN acc
    ELSE LET skill == Head(step_skills)
             step_order == Len(acc.steps)
             deps == _determine_dependencies(skill, acc.steps, step_order, seed)
             step == [skill |-> skill,
                      step_type |-> step_type,
                      order |-> step_order,
                      description |-> _generate_step_description(skill, step_type),
                      depends_on |-> deps.depends_on,
                      estimated_time |-> _estimate_step_time(skill)]
         IN IF deps.error # ""
            THEN [acc EXCEPT !.error = deps.error]
            ELSE AddSteps([acc EXCEPT !.steps = Append(@, step)],
                          Tail(step_skills), step_type, seed)

RECURSIVE FollowPattern(_, _, _, _, _, _)
\* for step_type in pattern: ...
FollowPattern(acc, pattern, core_skill, available_skills, problem_features, seed) ==
    IF acc.error # "" \/ Len(pattern) = 0 THEN acc
    ELSE LET found == _find_skills_for_step(Head(pattern), core_skill,
                                            available_skills, problem_features)
         IN IF found.error # ""
            THEN [acc EXCEPT !.error = found.error]
            ELSE FollowPattern(AddSteps(acc, found.skills, Head(pattern), seed),
                               Tail(pattern), core_skill, available_skills,
                               problem_features, seed)

_check_chain_prerequisites(steps, available_skills) ==
    [i \in 1..Len(steps) |-> check_prerequisites(steps[i].skill, available_skills)]

RECURSIVE SumMissing(_)
SumMissing(prereq_results) ==
    IF Len(prereq_results) = 0 THEN 0
    ELSE Head(prereq_results).missing_count + SumMissing(Tail(prereq_results))

\* in hundredths
_calculate_chain_confidence(steps, prereq_results) ==
    LET missing_count == SumMissing(prereq_results)
        penalty == IF missing_count > 0 THEN Min(missing_count * 5, 30) ELSE 0
        core_steps == Cardinality({i \in 1..Len(steps) :
                                      steps[i].step_type = "core_analysis"})
        boost == IF core_steps = 1 THEN 10 ELSE 0
    IN IF steps = <<>> THEN 0
       ELSE Max(0, Min(100, 80 - penalty + boost))

_estimate_chain_duration(steps) ==
    LET total_minutes == Len(steps) * 1
    IN IF total_minutes < 5 THEN "< 5 minutes"
       ELSE IF total_minutes < 15 THEN "5-15 minutes"
       ELSE "~" \o ToString(total_minutes) \o " minutes"

\* build_chain numbering the steps of the chain from one
BuildChainOrderFromOne(core_skill, problem_type, problem_features, available_skills, seed) ==
    LET pattern == PatternFor(problem_type)
        built == FollowPattern([error |-> "", steps |-> <<>>], pattern, core_skill,
                               available_skills, problem_features, seed)
        steps == [i \in 1..Len(built.steps) |-> [built.steps[i] EXCEPT !.order = i]]
        prereq_results == _check_chain_prerequisites(steps, available_skills)
        all_satisfied == \A i \in 1..Len(prereq_results) : prereq_results[i].all_satisfied
    IN IF built.error # ""
       THEN [status |-> "raised", error |-> built.error, name |-> "",
             steps |-> <<>>, total_steps |-> 0, estimated_duration |-> "",
             prerequisites_satisfied |-> FALSE, confidence |-> 0]
       ELSE [status |-> "returned", error |-> "",
             name |-> core_skill.name \o " Workflow",
             steps |-> steps,
             total_steps |-> Len(steps),
             estimated_duration |-> _estimate_chain_duration(steps),
             prerequisites_satisfied |-> all_satisfied,
             confidence |-> _calculate_chain_confidence(steps, prereq_results)]

build_chain(core_skill, problem_type, problem_features, available_skills, seed) ==
    LET pattern == PatternFor(problem_type)
        built == FollowPattern([error |-> "", steps |-> <<>>], pattern, core_skill,
                               available_skills, problem_features, seed)
        steps == built.steps
        prereq_results == _check_chain_prerequisites(steps, available_skills)
        all_satisfied == \A i \in 1..Len(prereq_results) : prereq_results[i].all_satisfied
    IN IF built.error # ""
       THEN [status |-> "raised", error |-> built.error, name |-> "",
             steps |-> <<>>, total_steps |-> 0, estimated_duration |-> "",
             prerequisites_satisfied |-> FALSE, confidence |-> 0]
       ELSE [status |-> "returned", error |-> "",
             name |-> core_skill.name \o " Workflow",
             steps |-> steps,
             total_steps |-> Len(steps),
             estimated_duration |-> _estimate_chain_duration(steps),
             prerequisites_satisfied |-> all_satisfied,
             confidence |-> _calculate_chain_confidence(steps, prereq_results)]

(***************************************************************************)
(* AlternativeFinder (recommendation/alternatives.py)                      *)
(***************************************************************************)
\* the mapping without a rank test for the t-test
MappingWithoutRankTest ==
    <<[method_id |-> "t-test", alt_method_ids |-> <<"wilcoxon", "bootstrap">>],
      [method_id |-> "anova", alt_method_ids |-> <<"kruskal-wallis", "bootstrap">>]>>

METHOD_ALTERNATIVES ==
    <<[method_id |-> "t-test", alt_method_ids |-> <<"mann-whitney", "wilcoxon", "bootstrap">>],
      [method_id |-> "anova", alt_method_ids |-> <<"kruskal-wallis", "bootstrap">>],
      [method_id |-> "linear_regression",
       alt_method_ids |-> <<"polynomial_regression", "generalized_linear_model",
                            "decision_tree">>],
      [method_id |-> "correlation",
       alt_method_ids |-> <<"spearman", "kendall", "mutual_information">>],
      [method_id |-> "chi-square", alt_method_ids |-> <<"fisher_exact", "bootstrap">>]>>

\* the four terms of _calculate_similarity, in thousandths
SimilarityTerms(skill1, skill2) ==
    LET tags1 == Range(skill1.tags)
        tags2 == Range(skill2.tags)
        types1 == IF skill1.input_data_types = <<>> THEN {"numerical"}
                  ELSE Range(skill1.input_data_types)
        types2 == IF skill2.input_data_types = <<>> THEN {"numerical"}
                  ELSE Range(skill2.input_data_types)
        c1 == skill1.statistical_concept
        c2 == skill2.statistical_concept
    IN [category |-> IF skill1.category = skill2.category THEN 300 ELSE 0,
        tags |-> IF tags1 # {} /\ tags2 # {}
                 THEN Min(Cardinality(tags1 \cap tags2) * 150, 300) ELSE 0,
        concept |-> IF c1 # "" /\ c2 # ""
                    THEN IF c1 = c2 THEN 200
                         ELSE IF Contains(c1, c2) \/ Contains(c2, c1) THEN 100
                         ELSE 0
                    ELSE 0,
        types |-> IF types1 \cap types2 # {} THEN 200 ELSE 0]

_calculate_similarity(skill1, skill2) ==
    LET t == SimilarityTerms(skill1, skill2)
    IN Min(t.category + t.tags + t.concept + t.types, 1000)

\* 0.3 <= similarity <= 0.6 on the float the code computes: the sums
\* 0.3 + 0.1 + 0.2 round to 0.6000000000000001
InDifferentBand(skill1, skill2) ==
    LET t == SimilarityTerms(skill1, skill2)
        similarity == _calculate_similarity(skill1, skill2)
        rounds_up == t.concept = 100 /\ t.types = 200 /\ similarity = 600
    IN 300 <= similarity /\ similarity <= 600 /\ ~rounds_up

_is_compatible_problem_type(skill, problem_type) ==
    LET type_keywords == Split(problem_type, "_")
        skill_text == Lower(skill.id \o " " \o skill.description \o " "
                            \o Join(" ", skill.tags))
    IN AnyKeyword(type_keywords, skill_text)

_get_advantages(alternative_skill, primary_skill) ==
    LET advantages ==
            (IF Len(alternative_skill.dependencies) < Len(primary_skill.dependencies)
             THEN <<"Fewer dependencies">> ELSE <<>>)
            \o (IF /\ alternative_skill.complexity # ""
                   /\ primary_skill.complexity # ""
                   /\ Contains("O(n)", alternative_skill.complexity)
                   /\ Contains("O(n^2)", primary_skill.complexity)
                THEN <<"Better time complexity">> ELSE <<>>)
            \o (IF Len(alternative_skill.use_cases) > Len(primary_skill.use_cases)
                THEN <<"More use cases">> ELSE <<>>)
    IN IF advantages = <<>> THEN <<"Different approach">> ELSE advantages

_get_disadvantages(alternative_skill, primary_skill) ==
    LET disadvantages ==
            (IF Len(alternative_skill.dependencies) > Len(primary_skill.dependencies)
             THEN <<"More dependencies">> ELSE <<>>)
            \o (IF /\ alternative_skill.complexity # ""
                   /\ primary_skill.complexity # ""
                   /\ Contains("O(n^2)", alternative_skill.complexity)
                   /\ Contains("O(n)", primary_skill.complexity)
                THEN <<"Worse time complexity">> ELSE <<>>)
            \o (IF alternative_skill.confidence < primary_skill.confidence
                THEN <<"Lower confidence in classification">> ELSE <<>>)
    IN IF disadvantages = <<>> THEN <<"Different approach">> ELSE disadvantages

_get_use_when(skill, alt_type) ==
    IF alt_type = "similar"
    THEN <<"Similar requirements", "Alternative approach needed">>
    ELSE IF alt_type = "different"
    THEN <<"Different perspective", "Verify results">>
    ELSE IF skill.use_cases # <<>> THEN SliceTo(skill.use_cases, 2)
    ELSE <<"General use">>

RECURSIVE Flatten(_)
\* the concatenation of a list of lists
Flatten(lists) ==
    IF Len(lists) = 0 THEN <<>> ELSE Head(lists) \o Flatten(Tail(lists))

SimilarAlternative(skill, primary_skill, confidence) ==
    [skill |-> skill,
     alternative_type |-> "similar_method",
     similarity_score |-> _calculate_similarity(primary_skill, skill),
     advantages |-> _get_advantages(skill, primary_skill),
     disadvantages |-> _get_disadvantages(skill, primary_skill),
     use_when |-> _get_use_when(skill, "similar"),
     confidence |-> confidence]

_find_similar_methods(primary_skill, all_skills, problem_type) ==
    LET skill_id_lower == Lower(primary_skill.id)
        \* the skills matched by one alternative id of the mapping
        ForAltId(alt_id) ==
            LET Hit(skill) == Contains(alt_id, Lower(skill.id))
                              /\ skill.id # primary_skill.id
                hits == SelectSeq(all_skills, Hit)
            IN [i \in 1..Len(hits) |-> SimilarAlternative(hits[i], primary_skill, 80)]
        ForMethod(entry) ==
            IF Contains(entry.method_id, skill_id_lower)
            THEN Flatten([i \in 1..Len(entry.alt_method_ids) |->
                             ForAltId(entry.alt_method_ids[i])])
            ELSE <<>>
        from_mapping == Flatten([i \in 1..Len(METHOD_ALTERNATIVES) |->
                                    ForMethod(METHOD_ALTERNATIVES[i])])
        SameFamily(skill) ==
            /\ skill.id # primary_skill.id
            /\ skill.category = primary_skill.category
            /\ Cardinality(Range(skill.tags) \cap Range(primary_skill.tags)) >= 2
        family == SelectSeq(all_skills, SameFamily)
        from_tags == [i \in 1..Len(family) |->
                         SimilarAlternative(family[i], primary_skill, 70)]
    IN SliceTo(from_mapping \o from_tags, 3)

\* the loop shared by _find_simpler_alternatives and _find_more_advanced
\* the keyword loop without the skip of the primary skill
KeywordAlternativesWithPrimary(primary_skill, all_skills, problem_type, keywords, alt) ==
    LET Hit(skill) ==
            /\ AnyKeyword(keywords, Lower(skill.id \o " " \o skill.description))
            /\ _is_compatible_problem_type(skill, problem_type)
        hits == SelectSeq(all_skills, Hit)
    IN SliceTo([i \in 1..Len(hits) |->
                   [alt EXCEPT !.skill = hits[i],
                               !.similarity_score =
                                   (_calculate_similarity(primary_skill, hits[i])
                                    * alt.similarity_score) \div 10]], 2)

KeywordAlternatives(primary_skill, all_skills, problem_type, keywords, alt) ==
    LET Hit(skill) ==
            /\ skill.id # primary_skill.id
            /\ AnyKeyword(keywords, Lower(skill.id \o " " \o skill.description))
            /\ _is_compatible_problem_type(skill, problem_type)
        hits == SelectSeq(all_skills, Hit)
    IN SliceTo([i \in 1..Len(hits) |->
                   [alt EXCEPT !.skill = hits[i],
                               !.similarity_score =
                                   (_calculate_similarity(primary_skill, hits[i])
                                    * alt.similarity_score) \div 10]], 2)

_find_simpler_alternatives(primary_skill, all_skills, problem_type) ==
    KeywordAlternatives(primary_skill, all_skills, problem_type,
        <<"simple", "basic", "easy", "quick", "introductory">>,
        [skill |-> primary_skill,
         alternative_type |-> "simpler_alternative",
         similarity_score |-> 8,
         advantages |-> <<"Easier to understand", "Faster computation",
                          "Fewer assumptions">>,
         disadvantages |-> <<"Less powerful", "May miss nuanced patterns">>,
         use_when |-> <<"Simplicity is prioritized", "Quick results needed",
                        "Learning stage">>,
         confidence |-> 75])

_find_more_advanced(primary_skill, all_skills, problem_type) ==
    KeywordAlternatives(primary_skill, all_skills, problem_type,
        <<"advanced", "sophisticated", "complex", "robust", "enhanced">>,
        [skill |-> primary_skill,
         alternative_type |-> "more_advanced",
         similarity_score |-> 9,
         advantages |-> <<"More powerful", "Handles edge cases", "Better accuracy">>,
         disadvantages |-> <<"More complex", "Slower computation",
                             "Requires more data">>,
         use_when |-> <<"High accuracy needed", "Complex data patterns",
                        "Expert users">>,
         confidence |-> 70])

_find_different_approaches(primary_skill, all_skills, problem_type) ==
    LET Hit(skill) ==
            /\ skill.id # primary_skill.id
            /\ _is_compatible_problem_type(skill, problem_type)
            /\ InDifferentBand(primary_skill, skill)
        hits == SelectSeq(all_skills, Hit)
    IN SliceTo([i \in 1..Len(hits) |->
                   [skill |-> hits[i],
                    alternative_type |-> "different_approach",
                    similarity_score |-> _calculate_similarity(primary_skill, hits[i]),
                    advantages |-> _get_advantages(hits[i], primary_skill),
                    disadvantages |-> _get_disadvantages(hits[i], primary_skill),
                    use_when |-> _get_use_when(hits[i], "different"),
                    confidence |-> 65]], 2)

_find_complementary(primary_skill, all_skills, problem_type) ==
    LET viz_keywords == <<"plot", "graph", "chart", "visualize">>
        Hit(skill) ==
            /\ skill.id # primary_skill.id
            /\ \E i \in 1..Len(viz_keywords) :
                  \/ Contains(viz_keywords[i], Lower(skill.id))
                  \/ Contains(viz_keywords[i], Lower(skill.description))
        hits == IF primary_skill.category = "statistical_method"
                THEN SelectSeq(all_skills, Hit) ELSE <<>>
    IN SliceTo([i \in 1..Len(hits) |->
                   [skill |-> hits[i],
                    alternative_type |-> "complementary",
                    similarity_score |-> 500,
                    advantages |-> <<"Visual representation", "Better communication",
                                     "Pattern detection">>,
                    disadvantages |-> <<"Additional step",
                                        "Requires visualization libraries">>,
                    use_when |-> <<"Need to present results", "Explore data visually",
                                   "Create reports">>,
                    confidence |-> 80]], 2)

AltKey(alt) == <<alt.skill.id, alt.alternative_type>>

\* _deduplicate_alternatives keeping every entry
KeepDuplicates(alternatives) == alternatives

RECURSIVE _deduplicate_alternatives(_)
_deduplicate_alternatives(alternatives) ==
    IF Len(alternatives) = 0 THEN <<>>
    ELSE LET n == Len(alternatives)
             unique == _deduplicate_alternatives(SubSeq(alternatives, 1, n - 1))
             seen == {AltKey(unique[i]) : i \in 1..Len(unique)}
         IN IF AltKey(alternatives[n]) \notin seen
            THEN Append(unique, alternatives[n])
            ELSE unique

\* the sort key of find_alternatives: lambda a: a.similarity_score
SimilarityOf == "similarity_score"

\* the alternatives of the five passes, merged in call order
MergedAlternatives(primary_skill, all_skills, problem_type) ==
    _find_similar_methods(primary_skill, all_skills, problem_type)
    \o _find_simpler_alternatives(primary_skill, all_skills, problem_type)
    \o _find_more_advanced(primary_skill, all_skills, problem_type)
    \o _find_different_approaches(primary_skill, all_skills, problem_type)
    \o _find_complementary(primary_skill, all_skills, problem_type)

\* "type (count)" for every alternative type, in order of first appearance
TypeCounts(alternatives) ==
    LET types == Distinct([i \in 1..Len(alternatives) |->
                              alternatives[i].alternative_type])
    IN [t \in 1..Len(types) |->
           types[t] \o " ("
           \o ToString(Cardinality({i \in 1..Len(alternatives) :
                                       alternatives[i].alternative_type = types[t]}))
           \o ")"]

_generate_reasoning(primary_skill, alternatives) ==
    IF alternatives = <<>>
    THEN "No alternatives found for " \o primary_skill.name
    ELSE "Found " \o ToString(Len(alternatives)) \o " alternatives for "
         \o primary_skill.name \o ": " \o Join(", ", TypeCounts(alternatives))

\* find_alternatives from the merge of the five passes on
\* the tail of find_alternatives counting the alternatives after the cut
CountAfterCut(primary_skill, merged, max_alternatives) ==
    LET alternatives == SliceTo(SortDesc(_deduplicate_alternatives(merged),
                                         SimilarityOf), max_alternatives)
    IN [primary_recommendation |-> primary_skill,
        alternatives |-> alternatives,
        total_alternatives |-> Len(alternatives),
        reasoning |-> _generate_reasoning(primary_skill, alternatives)]

RankAlternatives(primary_skill, merged, max_alternatives) ==
    LET alternatives == SortDesc(_deduplicate_alternatives(merged), SimilarityOf)
    IN [primary_recommendation |-> primary_skill,
        alternatives |-> SliceTo(alternatives, max_alternatives),
        total_alternatives |-> Len(alternatives),
        reasoning |-> _generate_reasoning(primary_skill, alternatives)]

find_alternatives(primary_skill, all_skills, problem_type, max_alternatives) ==
    RankAlternatives(primary_skill,
                     MergedAlternatives(primary_skill, all_skills, problem_type),
                     max_alternatives)

(***************************************************************************)
(* Inputs: catalogues, problems, scorer configurations                     *)
(***************************************************************************)
\* the lists of at most MaxSkills distinct skills of pool
Catalogues(pool) ==
    UNION {{[i \in 1..n |-> pool[f[i]]] :
               f \in {g \in [1..n -> 1..Len(pool)] :
                         \A a, b \in 1..n : a # b => g[a] # g[b]}} :
           n \in 0..Min(MaxSkills, Len(pool))}

HashSeeds == {0, 1}

\* caller-supplied top_k, max_recommendations and max_alternatives
KValues == -1..MaxK

ProblemFeatures(description, primary_goal, problem_type) ==
    [description |-> description, primary_goal |-> primary_goal,
     problem_type |-> problem_type, data_types |-> <<>>,
     context_keywords |-> <<>>, requires_visualization |-> FALSE]

TwoSampleProblem ==
    [features |->
        [ProblemFeatures("Compare two classes' scores for significant difference",
                         "compare", "hypothesis_test")
         EXCEPT !.data_types = <<"numerical">>,
                !.context_keywords = <<"hypothesis_testing", "means", "scores">>],
     problem_type |-> "two_sample_test",
     output_format |-> ""]

RegressionProblem ==
    [features |->
        [ProblemFeatures("Predict sales and plot the relationship", "predict",
                         "regression")
         EXCEPT !.data_types = <<"numerical", "mixed">>,
                !.context_keywords = <<"Plot", "sales">>,
                !.requires_visualization = TRUE],
     problem_type |-> "linear_regression",
     output_format |-> "plot"]

UnknownProblem ==
    [features |-> ProblemFeatures("Help me with my data", "analyze", "unknown"),
     problem_type |-> "unknown",
     output_format |-> "unknown"]

ProblemPool == {TwoSampleProblem, RegressionProblem, UnknownProblem}

TTest ==
    [SkillMetadata("t-test", "T-Test", "statistical_method",
                   "Compare the means of two samples")
     EXCEPT !.tags = <<"hypothesis_testing", "means">>,
            !.input_data_types = <<"numerical">>,
            !.output_format = "number",
            !.dependencies = <<"scipy">>,
            !.prerequisites = <<"descriptive-stats", "normality-test">>,
            !.use_cases = <<"Compare scores of two classes">>,
            !.statistical_concept = "hypothesis_testing"]

MannWhitney ==
    [SkillMetadata("mann-whitney", "Mann-Whitney U", "statistical_method",
                   "Robust rank test for two samples")
     EXCEPT !.tags = <<"hypothesis_testing", "non-parametric">>,
            !.input_data_types = <<"numerical", "categorical">>,
            !.statistical_concept = "hypothesis_testing"]

ScatterPlot ==
    [SkillMetadata("scatter-plot", "Scatter Plot", "visualization",
                   "Plot the relationship of two variables")
     EXCEPT !.tags = <<"plot", "sales">>,
            !.input_data_types = <<"mixed">>,
            !.output_format = "plot",
            !.dependencies = <<"matplotlib">>]

GradientDescent ==
    [SkillMetadata("gradient-descent", "Gradient Descent",
                   "mathematical_implementation", "Minimize a function")
     EXCEPT !.input_data_types = <<"text">>,
            !.complexity = "O(n^2)"]

RankPool == <<TTest, MannWhitney, ScatterPlot, GradientDescent>>

\* usage counts a caller may pass: skill_usage_history is a Dict[str, int]
UsageCounts == -1..MaxUsage

NoHistory == [x \in {} |-> 0]

\* the usage histories tried with a ranking method, over the ids of ids
UsageHistories(ranking_method, ids) ==
    IF ranking_method \in {"popularity", "recently_used"}
    THEN {NoHistory} \cup [ids -> UsageCounts]
    ELSE {NoHistory}

(***************************************************************************)
(* SkillIndex and SkillEditor (skills/index.py, skills/editor.py)          *)
(*                                                                         *)
(* An index is [skills, meta]: the list _metadata.skills and the other     *)
(* fields of _metadata.  meta.present is FALSE while _metadata is None.    *)
(***************************************************************************)
None == [found |-> FALSE]

\* SkillIndexMetadata._update_categories: count of skills per category
update_categories(skill_list) ==
    LET present == {skill_list[i].category : i \in 1..Len(skill_list)}
    IN [cat \in present |->
           Cardinality({i \in 1..Len(skill_list) : skill_list[i].category = cat})]

\* SkillIndexMetadata.add_skill
metadata_add_skill(index, skill) ==
    LET appended == Append(index.skills, skill)
    IN [skills |-> appended,
        meta |-> [index.meta EXCEPT !.categories = update_categories(appended),
                                    !.total_skills = Len(appended)]]

\* if not self._metadata: self._metadata = SkillIndexMetadata(skills=[], ...)
EnsureMetadata(index) ==
    IF index.meta.present
    THEN index
    ELSE [skills |-> <<>>,
          meta |-> [index.meta EXCEPT !.present = TRUE,
                                      !.categories = [cat \in {} |-> 0],
                                      !.total_skills = 0]]

\* next((i for i, s in enumerate(skills) if s.id == id), None); 0 is None
ExistingIdx(skill_list, id) ==
    LET hits == {i \in 1..Len(skill_list) : skill_list[i].id = id}
    IN IF hits = {} THEN 0 ELSE CHOOSE i \in hits : \A j \in hits : i <= j

\* add_skill appending in every mode, whether or not the id is present
AddAlwaysNew(index, skill, mode) == metadata_add_skill(EnsureMetadata(index), skill)

\* add_skill leaving a skill already held in place in every mode
AddIfAbsent(index, skill, mode) ==
    LET created == EnsureMetadata(index)
    IN IF ExistingIdx(created.skills, skill.id) # 0
       THEN created
       ELSE metadata_add_skill(created, skill)

\* SkillIndex.add_skill
add_skill(index, skill, mode) ==
    LET created == EnsureMetadata(index)
        existing_idx == ExistingIdx(created.skills, skill.id)
    IN IF mode = "skip" /\ existing_idx # 0 THEN created
       ELSE IF existing_idx # 0
            THEN [created EXCEPT !.skills[existing_idx] = skill]
            ELSE metadata_add_skill(created, skill)

\* SkillIndex.save: writes _metadata to the storage file
save(index) ==
    IF ~index.meta.present THEN index
    ELSE [index EXCEPT !.meta.stored =
             <<[skills |-> index.skills, categories |-> index.meta.categories,
                total_skills |-> index.meta.total_skills]>>]

RECURSIVE BatchAddEach(_, _, _)
\* for j, skill in enumerate(batch): the mode logic for each skill in turn
BatchAddEach(acc, batch, mode) ==
    IF batch = <<>> THEN acc
    ELSE LET skill == Head(batch)
             existing_idx == ExistingIdx(acc.index.skills, skill.id)
             counted == [acc.stats EXCEPT !.total = @ + 1]
             one == IF mode = "skip" /\ existing_idx # 0
                    THEN [index |-> acc.index,
                          stats |-> [counted EXCEPT !.skipped = @ + 1]]
                    ELSE IF existing_idx # 0
                    THEN [index |-> [acc.index EXCEPT !.skills[existing_idx] = skill],
                          stats |-> [counted EXCEPT !.updated = @ + 1]]
                    ELSE [index |-> metadata_add_skill(acc.index, skill),
                          stats |-> [counted EXCEPT !.added = @ + 1]]
         IN BatchAddEach(one, Tail(batch), mode)

\* for i in range(0, len(skills), batch_size): one batch, then save
RECURSIVE BatchesFrom(_, _, _, _, _)
BatchesFrom(acc, i, skill_list, mode, batch_size) ==
    IF i >= Len(skill_list) THEN acc
    ELSE LET last == IF i + batch_size > Len(skill_list)
                     THEN Len(skill_list) ELSE i + batch_size
             batch == SubSeq(skill_list, i + 1, last)
             done == BatchAddEach(acc, batch, mode)
         IN BatchesFrom([done EXCEPT !.index = save(done.index)],
                        i + batch_size, skill_list, mode, batch_size)

\* SkillIndex.batch_add_skills, for batch_size >= 1
batch_add_skills(index, skill_list, mode, batch_size) ==
    BatchesFrom([index |-> EnsureMetadata(index),
                 stats |-> [added |-> 0, updated |-> 0, skipped |-> 0, total |-> 0]],
                0, skill_list, mode, batch_size)

\* SkillIndex.remove_skill
remove_skill(index, skill_id) ==
    LET IsOther(s) == s.id # skill_id
        kept == SelectSeq(index.skills, IsOther)
    IN IF ~index.meta.present
       THEN [index |-> index, returned |-> FALSE]
       ELSE IF Len(kept) < Len(index.skills)
            THEN [index |-> [skills |-> kept,
                             meta |-> [index.meta EXCEPT
                                          !.total_skills = Len(kept),
                                          !.categories = update_categories(kept)]],
                  returned |-> TRUE]
            ELSE [index |-> [index EXCEPT !.skills = kept], returned |-> FALSE]

\* SkillIndex.clear
clear(index) ==
    IF index.meta.present
    THEN [skills |-> <<>>,
          meta |-> [index.meta EXCEPT !.categories = [cat \in {} |-> 0],
                                      !.total_skills = 0]]
    ELSE index

\* SkillIndex.get_skill: the first skill of that id, or None
get_skill(index, skill_id) ==
    IF ~index.meta.present THEN None
    ELSE LET idx == ExistingIdx(index.skills, skill_id)
         IN IF idx = 0 THEN None ELSE index.skills[idx]

\* SkillEditor.update_category; the skill get_skill returns is the object
\* held by the list, so the assignments change the list's element
update_category(index, skill_id, new_category) ==
    LET skill == get_skill(index, skill_id)
        idx == ExistingIdx(index.skills, skill_id)
        updated == [skill EXCEPT !.category = new_category,
                                 !.source = "manual", !.confidence = 1000]
    IN IF skill = None
       THEN [index |-> index, returned |-> None]
       ELSE [index |-> [index EXCEPT !.skills[idx] = updated],
             returned |-> updated]

RECURSIVE BulkUpdateEach(_, _)
\* for skill_id, params in updates.items(); params carries the attribute
\* category
BulkUpdateEach(acc, updates) ==
    IF updates = <<>> THEN acc
    ELSE LET skill_id == Head(updates).skill_id
             params == Head(updates).params
             skill == get_skill(acc.index, skill_id)
             idx == ExistingIdx(acc.index.skills, skill_id)
             updated == [skill EXCEPT !.category = params.category,
                                      !.source = "manual", !.confidence = 1000]
             one == IF skill = None
                    THEN [index |-> acc.index,
                          results |-> Append(acc.results,
                                             [skill_id |-> skill_id, ok |-> FALSE])]
                    ELSE [index |-> [acc.index EXCEPT !.skills[idx] = updated],
                          results |-> Append(acc.results,
                                             [skill_id |-> skill_id, ok |-> TRUE])]
         IN BulkUpdateEach(one, Tail(updates))

\* SkillEditor.bulk_update; updates lists the items of the dict in order
bulk_update(index, updates) ==
    BulkUpdateEach([index |-> index, results |-> <<>>], updates)

(***************************************************************************)
(* State machine                                                           *)
(***************************************************************************)
NoMatch == [called |-> FALSE, top_k |-> 0, results |-> <<>>]

NoRec ==
    [called |-> FALSE, ranking_method |-> "", skill_usage_history |-> NoHistory,
     max_recommendations |-> 0, match_results |-> <<>>, status |-> "",
     recommendations |-> <<>>]

NoPrereq == [called |-> FALSE]

NoChain == [called |-> FALSE]

NoAlt == [called |-> FALSE]

NoFilter == [called |-> FALSE]

NoEdit ==
    [called |-> FALSE, ops |-> 0, op |-> "", skill_ids |-> <<>>, found |-> <<>>,
     mode |-> "", args |-> <<>>, returned |-> None]

\* SkillIndex._metadata before the first add_skill: None
\* stored is the content of the storage file: <<>> while there is none
NoIndexMeta ==
    [present |-> FALSE, categories |-> [cat \in {} |-> 0], total_skills |-> 0,
     stored |-> <<>>]

Idle ==
    /\ matchOut = NoMatch
    /\ recOut = NoRec
    /\ prereqOut = NoPrereq
    /\ chainOut = NoChain
    /\ altOut = NoAlt
    /\ filterOut = NoFilter
    /\ editOut = NoEdit
    /\ indexMeta = NoIndexMeta

\* SkillMatcher().match(skills, ...) of one request
Match ==
    /\ ~matchOut.called
    /\ \E top_k \in KValues :
          matchOut' = [called |-> TRUE, top_k |-> top_k,
                       results |-> match(skills, problem.features,
                                         problem.problem_type,
                                         problem.output_format, top_k, hashSeed)]
    /\ UNCHANGED <<skills, hashSeed, problem, recOut, prereqOut, chainOut, altOut,
                 filterOut, editOut, indexMeta>>

\* RecommendationScorer(method, history).score_recommendations(match_results, k)
ScoreRecommendations ==
    /\ matchOut.called
    /\ ~recOut.called
    /\ \E ranking_method \in RankingMethod, max_recommendations \in KValues :
          \E skill_usage_history \in UsageHistories(ranking_method,
                 {skills[i].id : i \in 1..Len(skills)}) :
             recOut' = [called |-> TRUE,
                        ranking_method |-> ranking_method,
                        skill_usage_history |-> skill_usage_history,
                        max_recommendations |-> max_recommendations,
                        match_results |-> matchOut.results,
                        \* no statement of score_recommendations raises
                        status |-> "returned",
                        recommendations |->
                            score_recommendations(matchOut.results,
                                max_recommendations, ranking_method,
                                skill_usage_history)]
    /\ UNCHANGED <<skills, hashSeed, problem, matchOut, prereqOut, chainOut, altOut,
                 filterOut, editOut, indexMeta>>

InitRank ==
    /\ skills \in Catalogues(RankPool)
    /\ hashSeed \in HashSeeds
    /\ problem \in ProblemPool
    /\ Idle

NextRank == Match \/ ScoreRecommendations

SpecRank == InitRank /\ [][NextRank]_vars

(***************************************************************************)
(* Prerequisite checks                                                     *)
(***************************************************************************)
AdvancedRegression ==
    [SkillMetadata("advanced-regression", "Advanced Regression",
                   "statistical_method", "Robust regression for complex data")
     EXCEPT !.tags = <<"regression", "robust">>,
            !.dependencies = <<"scipy">>,
            !.prerequisites = <<"correlation-analysis">>,
            !.statistical_concept = "regression"]

CorrelationCheck ==
    [SkillMetadata("correlation-check", "Correlation Check", "data_analysis",
                   "Check whether two variables correlate")
     EXCEPT !.tags = <<"correlation">>]

Correlation ==
    [SkillMetadata("correlation", "Correlation", "statistical_method",
                   "Pearson correlation coefficient")
     EXCEPT !.dependencies = <<"scipy">>,
            !.statistical_concept = "correlation"]

CorrelationAnalysis ==
    [SkillMetadata("correlation-analysis", "Correlation Analysis",
                   "statistical_method", "Analyze pairwise correlation")
     EXCEPT !.prerequisites = <<"descriptive-stats">>]

DescriptiveStats ==
    [SkillMetadata("descriptive-stats", "Descriptive Statistics",
                   "statistical_method", "Basic summary of a sample")
     EXCEPT !.tags = <<"summary", "descriptive">>,
            !.dependencies = <<"scipy">>]

PrereqPool ==
    <<AdvancedRegression, CorrelationCheck, Correlation, CorrelationAnalysis,
      DescriptiveStats, TTest>>

\* PrerequisiteChecker.check_prerequisites(skill, available_skills=skills)
CheckPrerequisites ==
    /\ ~prereqOut.called
    /\ \E i \in 1..Len(PrereqPool) :
          prereqOut' = [called |-> TRUE,
                        skill |-> PrereqPool[i],
                        result |-> check_prerequisites(PrereqPool[i], skills)]
    /\ UNCHANGED <<skills, hashSeed, problem, matchOut, recOut, chainOut, altOut,
                 filterOut, editOut, indexMeta>>

\* PrerequisiteChecker.filter_by_prerequisites(PrereqPool, skills, require_all)
FilterByPrerequisites ==
    /\ ~filterOut.called
    /\ \E require_all \in BOOLEAN :
          filterOut' = [called |-> TRUE,
                        require_all |-> require_all,
                        candidates |-> PrereqPool,
                        filtered |-> filter_by_prerequisites(PrereqPool, skills,
                                                             require_all)]
    /\ UNCHANGED <<skills, hashSeed, problem, matchOut, recOut, prereqOut, chainOut,
                 altOut, editOut, indexMeta>>

InitPrereq ==
    /\ skills \in Catalogues(PrereqPool)
    /\ hashSeed \in HashSeeds
    /\ problem = UnknownProblem
    /\ Idle

NextPrereq == CheckPrerequisites \/ FilterByPrerequisites

SpecPrereq == InitPrereq /\ [][NextPrereq]_vars

(***************************************************************************)
(* Chain building                                                          *)
(***************************************************************************)
LoadData ==
    [SkillMetadata("Load-Data", "Load Data", "data_analysis", "Load a dataset")
     EXCEPT !.tags = <<"io">>]

NormalityCheck ==
    [SkillMetadata("normality-check", "Normality Check", "statistical_method",
                   "Diagnostic for the normality assumption")
     EXCEPT !.prerequisites = <<"Load-Data">>]

ExportResults ==
    [SkillMetadata("export-results", "Export Results", "data_analysis",
                   "Write results to a file")
     EXCEPT !.complexity = "O(n)"]

MeanEstimate ==
    [SkillMetadata("mean-estimate", "Mean Estimate", "statistical_method",
                   "Estimate the average of a sample")
     EXCEPT !.tags = <<"average">>,
            !.prerequisites = <<"Load-Data", "missing-values">>]

ChainPool == <<MeanEstimate, LoadData, NormalityCheck, ScatterPlot, ExportResults>>

ChainProblemTypes ==
    {"descriptive", "hypothesis_test", "classification", "optimization", "unknown"}

\* SkillChainBuilder.build_chain(core_skill, problem_type, features, skills)
BuildChain ==
    /\ ~chainOut.called
    /\ \E i \in 1..Len(ChainPool), problem_type \in ChainProblemTypes :
          chainOut' = [called |-> TRUE,
                       core_skill |-> ChainPool[i],
                       problem_type |-> problem_type,
                       chain |-> build_chain(ChainPool[i], problem_type,
                                             problem.features, skills, hashSeed)]
    /\ UNCHANGED <<skills, hashSeed, problem, matchOut, recOut, prereqOut, altOut,
                 filterOut, editOut, indexMeta>>

InitChain ==
    /\ skills \in Catalogues(ChainPool)
    /\ hashSeed \in HashSeeds
    /\ problem \in {TwoSampleProblem, RegressionProblem}
    /\ Idle

NextChain == BuildChain

SpecChain == InitChain /\ [][NextChain]_vars

(***************************************************************************)
(* Alternatives                                                            *)
(***************************************************************************)
WilcoxonTest ==
    [SkillMetadata("wilcoxon-test", "Wilcoxon Signed-Rank", "statistical_method",
                   "Simple paired test of two samples")
     EXCEPT !.tags = <<"hypothesis_testing", "means", "paired">>,
            !.input_data_types = <<"numerical">>,
            !.statistical_concept = "hypothesis"]

BootstrapMannWhitney ==
    [SkillMetadata("bootstrap-mann-whitney", "Bootstrap Mann-Whitney",
                   "statistical_method", "Enhanced resampling test of two samples")
     EXCEPT !.tags = <<"resampling">>,
            !.input_data_types = <<"categorical">>,
            !.dependencies = <<"scipy", "numpy">>,
            !.use_cases = <<"Small samples", "Skewed data">>,
            !.complexity = "O(n^2)"]

AltPool ==
    <<TTest, MannWhitney, WilcoxonTest, BootstrapMannWhitney, ScatterPlot>>

AltProblemTypes == {"two_sample_test", "regression"}

\* AlternativeFinder(index).find_alternatives(primary_skill, problem_type, ...)
FindAlternatives ==
    /\ ~altOut.called
    /\ \E i \in 1..Len(AltPool), problem_type \in AltProblemTypes :
          LET merged == MergedAlternatives(AltPool[i], skills, problem_type)
          IN \E max_alternatives \in KValues :
                altOut' = [called |-> TRUE,
                           primary_skill |-> AltPool[i],
                           problem_type |-> problem_type,
                           max_alternatives |-> max_alternatives,
                           merged |-> merged,
                           result |-> RankAlternatives(AltPool[i], merged,
                                                       max_alternatives)]
    /\ UNCHANGED <<skills, hashSeed, problem, matchOut, recOut, prereqOut, chainOut,
                 filterOut, editOut, indexMeta>>

InitAlt ==
    /\ skills \in Catalogues(AltPool)
    /\ hashSeed \in HashSeeds
    /\ problem = TwoSampleProblem
    /\ Idle

NextAlt == FindAlternatives

SpecAlt == InitAlt /\ [][NextAlt]_vars

(***************************************************************************)
(* SkillIndex edited through SkillEditor: here skills is _metadata.skills  *)
(***************************************************************************)
\* skills a caller constructs without an explicit type_group; the t-test
\* comes in two categories
IndexPool ==
    {TTest, [TTest EXCEPT !.category = "algorithm"], ScatterPlot, GradientDescent}

IndexIds == {"t-test", "gradient-descent", "no-such-skill"}

UpdateModes == {"merge", "overwrite", "skip"}

\* the dicts a caller passes to bulk_update: one or two ids, each with a
\* category to set
BulkUpdates ==
    {<<[skill_id |-> a, params |-> [category |-> c]]>> :
        a \in IndexIds, c \in {"algorithm", "visualization"}}
    \cup {<<[skill_id |-> "t-test", params |-> [category |-> c]],
            [skill_id |-> "gradient-descent", params |-> [category |-> d]]>> :
        c \in {"algorithm"}, d \in {"data_analysis", "algorithm"}}

TheIndex == [skills |-> skills, meta |-> indexMeta]

\* the record of the last operation: its arguments, whether each id it names
\* was in the index before it, and what it returned
Edited(op, skill_ids, mode, args, returned) ==
    [called |-> TRUE, ops |-> editOut.ops + 1, op |-> op, skill_ids |-> skill_ids,
     found |-> [i \in 1..Len(skill_ids) |-> get_skill(TheIndex, skill_ids[i]) # None],
     mode |-> mode, args |-> args, returned |-> returned]

\* SkillIndex.add_skill(skill, mode)
AddSkill ==
    /\ editOut.ops < MaxOps
    /\ \E skill \in IndexPool, mode \in UpdateModes :
          LET after == add_skill(TheIndex, skill, mode)
          IN /\ skills' = after.skills
             /\ indexMeta' = after.meta
             /\ editOut' = Edited("add_skill", <<skill.id>>, mode, <<skill>>, None)
    /\ UNCHANGED <<hashSeed, problem, matchOut, recOut, prereqOut, chainOut, altOut,
                 filterOut>>

\* SkillIndex.batch_add_skills(skills, mode, batch_size)
BatchAddSkills ==
    /\ editOut.ops < MaxOps
    /\ \E skill_list \in {<<>>} \cup {<<a>> : a \in IndexPool}
                          \cup {<<a, b>> : a, b \in IndexPool},
          mode \in UpdateModes, batch_size \in {1, 50} :
          LET after == batch_add_skills(TheIndex, skill_list, mode, batch_size)
          IN /\ skills' = after.index.skills
             /\ indexMeta' = after.index.meta
             /\ editOut' = Edited("batch_add_skills",
                                  [i \in 1..Len(skill_list) |-> skill_list[i].id],
                                  mode, skill_list, after.stats)
    /\ UNCHANGED <<hashSeed, problem, matchOut, recOut, prereqOut, chainOut, altOut,
                 filterOut>>

\* SkillIndex.remove_skill(skill_id)
RemoveSkill ==
    /\ editOut.ops < MaxOps
    /\ \E skill_id \in IndexIds :
          LET after == remove_skill(TheIndex, skill_id)
          IN /\ skills' = after.index.skills
             /\ indexMeta' = after.index.meta
             /\ editOut' = Edited("remove_skill", <<skill_id>>, "", <<>>,
                                  after.returned)
    /\ UNCHANGED <<hashSeed, problem, matchOut, recOut, prereqOut, chainOut, altOut,
                 filterOut>>

\* SkillIndex.clear()
Clear ==
    /\ editOut.ops < MaxOps
    /\ LET after == clear(TheIndex)
       IN /\ skills' = after.skills
          /\ indexMeta' = after.meta
          /\ editOut' = Edited("clear", <<>>, "", <<>>, None)
    /\ UNCHANGED <<hashSeed, problem, matchOut, recOut, prereqOut, chainOut, altOut,
                 filterOut>>

\* SkillEditor(index).update_category(skill_id, new_category)
UpdateCategory ==
    /\ editOut.ops < MaxOps
    /\ \E skill_id \in IndexIds, new_category \in SkillCategory :
          LET after == update_category(TheIndex, skill_id, new_category)
          IN /\ skills' = after.index.skills
             /\ indexMeta' = after.index.meta
             /\ editOut' = Edited("update_category", <<skill_id>>, "",
                                  <<new_category>>, after.returned)
    /\ UNCHANGED <<hashSeed, problem, matchOut, recOut, prereqOut, chainOut, altOut,
                 filterOut>>

\* SkillEditor(index).bulk_update(updates)
BulkUpdate ==
    /\ editOut.ops < MaxOps
    /\ \E updates \in BulkUpdates :
          LET after == bulk_update(TheIndex, updates)
          IN /\ skills' = after.index.skills
             /\ indexMeta' = after.index.meta
             /\ editOut' = Edited("bulk_update",
                                  [i \in 1..Len(updates) |-> updates[i].skill_id],
                                  "", updates, after.results)
    /\ UNCHANGED <<hashSeed, problem, matchOut, recOut, prereqOut, chainOut, altOut,
                 filterOut>>

InitIndex ==
    /\ skills = <<>>
    /\ hashSeed = 0
    /\ problem = UnknownProblem
    /\ Idle

NextIndex ==
    AddSkill \/ BatchAddSkills \/ RemoveSkill \/ Clear \/ UpdateCategory \/ BulkUpdate

SpecIndex == InitIndex /\ [][NextIndex]_vars

(***************************************************************************)
(* Properties                                                              *)
(***************************************************************************)
StepName(order) == "step_" \o ToString(order)

\* C1: the list returned by score_recommendations is ordered by final_score,
\* non-increasing, and the element at index i (0-based) has ranking_position
\* i + 1, for every ranking method.
C1_RankingLaw ==
    recOut.called =>
        LET r == recOut.recommendations
        IN /\ \A i \in 1..(Len(r) - 1) : r[i].final_score >= r[i + 1].final_score
           /\ \A i \in 1..Len(r) : r[i].ranking_position = i

\* a ranking that moved a match with a lower match score to the front
C1_Witness ==
    /\ recOut.called
    /\ Len(recOut.recommendations) >= 2
    /\ recOut.recommendations[1].match_score < recOut.recommendations[2].match_score
    /\ recOut.recommendations[1].final_score > recOut.recommendations[2].final_score

\* C2 as stated: for every integer k, score_recommendations(..., k) returns at
\* most k recommendations and match(..., top_k) at most top_k results.
C2_CapLawEveryInteger ==
    /\ recOut.called => Len(recOut.recommendations) <= recOut.max_recommendations
    /\ matchOut.called => Len(matchOut.results) <= matchOut.top_k

\* C2 amended: for every integer k >= 0, score_recommendations(..., k) returns
\* at most k recommendations and match(..., top_k) at most top_k results.
C2_CapLaw ==
    /\ (recOut.called /\ recOut.max_recommendations >= 0) =>
           Len(recOut.recommendations) <= recOut.max_recommendations
    /\ (matchOut.called /\ matchOut.top_k >= 0) =>
           Len(matchOut.results) <= matchOut.top_k

\* both calls were given more entries than a non-negative cap allows
C2_Witness ==
    /\ matchOut.called
    /\ matchOut.top_k >= 0
    /\ Len(skills) > matchOut.top_k
    /\ recOut.called
    /\ recOut.max_recommendations >= 0
    /\ Len(recOut.match_results) > recOut.max_recommendations
    /\ Len(recOut.recommendations) = recOut.max_recommendations

\* C3: every sub-score, the composite score, the confidence and the
\* final_score lie in [0.0, 1.0], for every ranking method and every usage
\* history supplied to the scorer.
C3_ScoreBounds ==
    /\ matchOut.called =>
          \A i \in 1..Len(matchOut.results) :
             LET r == matchOut.results[i]
             IN /\ \A k \in DOMAIN r.sub_scores :
                      0 <= r.sub_scores[k] /\ r.sub_scores[k] <= 10
                /\ 0 <= r.score /\ r.score <= 1000
                /\ 0 <= r.confidence /\ r.confidence <= 1000
    /\ recOut.called =>
          \A i \in 1..Len(recOut.recommendations) :
             /\ 0 <= recOut.recommendations[i].final_score
             /\ recOut.recommendations[i].final_score <= FinalOne

\* C10: match called with top_k < 1 returns an empty list, whatever the
\* number of skills supplied.
C10_NoOpBelowOne ==
    (matchOut.called /\ matchOut.top_k < 1) => matchOut.results = <<>>

C11_FailFastBelowOne ==
    (recOut.called /\ recOut.max_recommendations < 1) => recOut.status = "raised"

\* C19: for a fixed catalogue and fixed inputs, two runs of match,
\* score_recommendations and build_chain produce identical outputs, whatever
\* hash seed each run of the interpreter draws: the output of the call made
\* is the output the same call has under every hash seed.
C19_Determinism ==
    \A seed \in HashSeeds :
       /\ matchOut.called =>
             matchOut.results = match(skills, problem.features, problem.problem_type,
                                      problem.output_format, matchOut.top_k, seed)
       /\ recOut.called =>
             recOut.recommendations =
                score_recommendations(
                    match(skills, problem.features, problem.problem_type,
                          problem.output_format, matchOut.top_k, seed),
                    recOut.max_recommendations, recOut.ranking_method,
                    recOut.skill_usage_history)
       /\ chainOut.called =>
             chainOut.chain = build_chain(chainOut.core_skill, chainOut.problem_type,
                                          problem.features, skills, seed)

\* C4: in every result of check_prerequisites, all_satisfied is true exactly
\* when missing_count is 0, and satisfied_count + missing_count never exceeds
\* the number of entries of the returned prerequisites list.
C4_PrerequisiteSoundness ==
    prereqOut.called =>
        LET r == prereqOut.result
        IN /\ r.all_satisfied <=> (r.missing_count = 0)
           /\ r.satisfied_count + r.missing_count <= Len(r.prerequisites)

HasStatus(result, status) ==
    \E i \in 1..Len(result.prerequisites) : result.prerequisites[i].status = status

\* a check that found a partial and a satisfied prerequisite and none missing
C4_Witness ==
    /\ prereqOut.called
    /\ HasStatus(prereqOut.result, "partial")
    /\ HasStatus(prereqOut.result, "satisfied")
    /\ prereqOut.result.missing_count = 0
    /\ prereqOut.result.satisfied_count < Len(prereqOut.result.prerequisites)

\* the case of C7: the checked skill declares "correlation-analysis", no
\* available skill has that id, and "correlation-check" is available
C7_Case ==
    /\ prereqOut.called
    /\ "correlation-analysis" \in Range(prereqOut.skill.prerequisites)
    /\ \A i \in 1..Len(skills) : skills[i].id # "correlation-analysis"
    /\ \E i \in 1..Len(skills) : skills[i].id = "correlation-check"

\* the entry of the declared prerequisite "correlation-analysis"
C7_Entry ==
    LET p == prereqOut.result.prerequisites
    IN p[CHOOSE i \in 1..Len(p) : p[i].skill_id = "correlation-analysis"]

\* C7 as stated: in that case the declared prerequisite is reported partial
\* with confidence 0.5, missing_count is 0 and all_satisfied is true.
C7_PartialByOverlap ==
    C7_Case =>
        /\ C7_Entry.status = "partial"
        /\ C7_Entry.confidence = 5
        /\ prereqOut.result.missing_count = 0
        /\ prereqOut.result.all_satisfied

\* some available id contains "correlation-analysis" or is contained in it
C7_SomeIdContained ==
    \E i \in 1..Len(skills) :
       \/ Contains(skills[i].id, "correlation-analysis")
       \/ Contains("correlation-analysis", skills[i].id)

\* C7 amended: in that case the declared prerequisite is reported missing with
\* confidence 0.0, missing_count is 1 and all_satisfied is false, because
\* neither of "correlation-analysis" and "correlation-check" contains the
\* other; it is partial with confidence 0.5, missing_count 0 and all_satisfied
\* true only if another available id contains "correlation-analysis" or is
\* contained in it.
C7_MissingWithoutContainment ==
    C7_Case =>
        IF C7_SomeIdContained
        THEN /\ C7_Entry.status = "partial"
             /\ C7_Entry.confidence = 5
             /\ prereqOut.result.missing_count = 0
             /\ prereqOut.result.all_satisfied
        ELSE /\ C7_Entry.status = "missing"
             /\ C7_Entry.confidence = 0
             /\ prereqOut.result.missing_count = 1
             /\ ~prereqOut.result.all_satisfied

\* the case of C7 with no id but "correlation-check" to compare with
C7_Witness ==
    /\ C7_Case
    /\ ~C7_SomeIdContained
    /\ C7_Entry.status = "missing"

\* the entry of the result for prerequisite prereq_id
C13_Entry(prereq_id) ==
    LET p == prereqOut.result.prerequisites
    IN p[CHOOSE i \in 1..Len(p) : p[i].skill_id = prereq_id]

\* the declared prerequisites of the checked skill that are the id of no
\* available skill
C13_Unavailable ==
    {prereq_id \in Range(prereqOut.skill.prerequisites) :
        \A i \in 1..Len(skills) : skills[i].id # prereq_id}

\* some available id contains prereq_id or is contained in it, ignoring case
C13_Resembled(prereq_id) ==
    \E i \in 1..Len(skills) :
       \/ Contains(Lower(prereq_id), Lower(skills[i].id))
       \/ Contains(Lower(skills[i].id), Lower(prereq_id))

\* C13 as stated: if the checked skill declares a prerequisite id that is not
\* the id of any available skill, the result has all_satisfied false and
\* reports that prerequisite as missing.
C13_UnavailableIsMissing ==
    prereqOut.called =>
        \A prereq_id \in C13_Unavailable :
           /\ ~prereqOut.result.all_satisfied
           /\ C13_Entry(prereq_id).status = "missing"

\* C13 amended: if the checked skill declares a prerequisite id that is not
\* the id of any available skill, and no available id contains it or is
\* contained in it (ignoring case), the result has all_satisfied false and
\* reports that prerequisite as missing; if some available id does, the
\* prerequisite is reported as partial and is not counted as missing.
C13_UnresembledIsMissing ==
    prereqOut.called =>
        /\ \A prereq_id \in C13_Unavailable :
              IF C13_Resembled(prereq_id)
              THEN C13_Entry(prereq_id).status = "partial"
              ELSE /\ ~prereqOut.result.all_satisfied
                   /\ C13_Entry(prereq_id).status = "missing"
        /\ prereqOut.result.missing_count >=
              Cardinality({q \in C13_Unavailable : ~C13_Resembled(q)})

\* a skill with one declared prerequisite available and another that no
\* available id resembles
C13_Witness ==
    /\ prereqOut.called
    /\ \E q \in C13_Unavailable : ~C13_Resembled(q)
    /\ \E q \in Range(prereqOut.skill.prerequisites) : q \notin C13_Unavailable
    /\ ~prereqOut.result.all_satisfied

\* the number of declared prerequisites of skill that the check of
\* filter_by_prerequisites reports with status satisfied
C14_Satisfied(skill) ==
    LET p == check_prerequisites_sync(skill, skills).prerequisites
    IN Cardinality({i \in 1..Len(p) : p[i].status = "satisfied"})

\* C14: filter_by_prerequisites keeps a skill, when require_all is false, iff
\* at least half of its prerequisites are satisfied or it has none, and, when
\* require_all is true, iff every one of its prerequisites has status
\* satisfied.
C14_FilterLaw ==
    filterOut.called =>
        \A i \in 1..Len(filterOut.candidates) :
           LET skill == filterOut.candidates[i]
               total == Len(skill.prerequisites)
               kept == \E j \in 1..Len(filterOut.filtered) :
                          filterOut.filtered[j] = skill
           IN kept <=> IF filterOut.require_all
                       THEN C14_Satisfied(skill) = total
                       ELSE total = 0 \/ 2 * C14_Satisfied(skill) >= total

C15_ExactlyOneCoreStep ==
    (chainOut.called /\ chainOut.chain.status = "returned") =>
        LET steps == chainOut.chain.steps
        IN /\ Cardinality({i \in 1..Len(steps) :
                              steps[i].step_type = "core_analysis"}) = 1
           /\ \A i \in 1..Len(steps) :
                 IF steps[i].step_type = "core_analysis"
                 THEN steps[i].skill = chainOut.core_skill
                 ELSE steps[i].skill.id # chainOut.core_skill.id

\* a chain returned for a core skill that is in the catalogue and carries the
\* keyword "plot" of the visualization slot, for a problem that requires
\* visualization
C15_Witness ==
    /\ chainOut.called
    /\ chainOut.chain.status = "returned"
    /\ chainOut.core_skill.id = "scatter-plot"
    /\ \E i \in 1..Len(skills) : skills[i].id = "scatter-plot"
    /\ problem.features.requires_visualization
    /\ "visualization" \in Range(PatternFor(chainOut.problem_type))

\* the skills of the catalogue that a slot of the given type would take
C8_SlotSkills(step_type) ==
    _find_skills_for_step(step_type, chainOut.core_skill, skills,
        [problem.features EXCEPT !.requires_visualization = TRUE]).skills

\* C8: build_chain with problem type "descriptive" on a catalogue without
\* preparation and validation skills (here also without visualization skills)
\* returns a chain whose only step is the core_analysis step, with order 0 and
\* empty depends_on, and whose prerequisites_satisfied is the all_satisfied of
\* check_prerequisites for the core skill.
C8_CoreOnlyChain ==
    (/\ chainOut.called
     /\ chainOut.problem_type = "descriptive"
     /\ C8_SlotSkills("preparation") = <<>>
     /\ C8_SlotSkills("validation") = <<>>
     /\ C8_SlotSkills("visualization") = <<>>) =>
        /\ chainOut.chain.status = "returned"
        /\ Len(chainOut.chain.steps) = 1
        /\ chainOut.chain.steps[1].step_type = "core_analysis"
        /\ chainOut.chain.steps[1].order = 0
        /\ chainOut.chain.steps[1].depends_on = <<>>
        /\ chainOut.chain.prerequisites_satisfied
              = check_prerequisites(chainOut.core_skill, skills).all_satisfied

\* C9: build_chain returns a chain in which the core_analysis step's
\* depends_on contains every preparation step added before it.
C9_CoreDependsOnPreparation ==
    (chainOut.called /\ C8_SlotSkills("preparation") # <<>>) =>
        /\ chainOut.chain.status = "returned"
        /\ \A i \in 1..Len(chainOut.chain.steps) :
              chainOut.chain.steps[i].step_type = "core_analysis" =>
                 \A j \in 1..(i - 1) :
                    chainOut.chain.steps[j].step_type = "preparation" =>
                       StepName(chainOut.chain.steps[j].order)
                          \in Range(chainOut.chain.steps[i].depends_on)

\* the number of distinct (skill id, alternative_type) pairs the five passes
\* produced
C16_Deduplicated ==
    Cardinality({AltKey(altOut.merged[i]) : i \in 1..Len(altOut.merged)})

\* the alternatives are in non-increasing order of similarity_score and
\* total_alternatives counts the deduplicated alternatives before the cut
C16_SortedAndCounted ==
    LET a == altOut.result.alternatives
        total == altOut.result.total_alternatives
    IN /\ \A i \in 1..(Len(a) - 1) :
             a[i].similarity_score >= a[i + 1].similarity_score
       /\ total = C16_Deduplicated
       /\ total >= Len(a)
       /\ altOut.max_alternatives >= total => Len(a) = total

\* C16 as stated: find_alternatives returns alternatives sorted by
\* similarity_score in non-increasing order and holding at most
\* max_alternatives entries, and total_alternatives is the number of
\* deduplicated alternatives before truncation.
C16_SortedCappedCounted ==
    altOut.called =>
        /\ C16_SortedAndCounted
        /\ Len(altOut.result.alternatives) <= altOut.max_alternatives

\* C16 amended: the same, with the cap holding for max_alternatives >= 0.
C16_SortedCappedFromZero ==
    altOut.called =>
        /\ C16_SortedAndCounted
        /\ altOut.max_alternatives >= 0 =>
              Len(altOut.result.alternatives) <= altOut.max_alternatives

\* a call whose alternatives were reordered by the sort and cut by the cap
C16_Witness ==
    /\ altOut.called
    /\ altOut.max_alternatives >= 2
    /\ altOut.result.total_alternatives > altOut.max_alternatives
    /\ Len(altOut.result.alternatives) = altOut.max_alternatives
    /\ \E i, j \in 1..Len(altOut.merged) :
          /\ i < j
          /\ altOut.merged[i].similarity_score < altOut.merged[j].similarity_score
          /\ altOut.merged[j] = altOut.result.alternatives[1]

\* the call of C17: primary skill "t-test", problem type two_sample_test, a
\* catalogue of exactly "t-test" and "mann-whitney", and room for an entry
C17_Case ==
    /\ altOut.called
    /\ altOut.primary_skill = TTest
    /\ altOut.problem_type = "two_sample_test"
    /\ Len(skills) = 2
    /\ {skills[1], skills[2]} = {TTest, MannWhitney}
    /\ altOut.max_alternatives >= 1

\* C17: with a catalogue of "t-test" and "mann-whitney", find_alternatives for
\* the primary skill "t-test" and problem type two_sample_test returns an
\* alternative whose skill is "mann-whitney" and whose type is similar_method.
C17_RankTestIsSimilarMethod ==
    C17_Case =>
        \E i \in 1..Len(altOut.result.alternatives) :
           /\ altOut.result.alternatives[i].skill.id = "mann-whitney"
           /\ altOut.result.alternatives[i].alternative_type = "similar_method"

\* the call of C17 was made and its first alternative is "mann-whitney"
C17_Witness ==
    /\ C17_Case
    /\ altOut.result.total_alternatives >= 1
    /\ altOut.result.alternatives[1].skill.id = "mann-whitney"

\* C18: no alternative found by any of the five passes, and none returned,
\* has the primary skill's id; a catalogue that holds only the primary skill
\* yields an empty alternatives list with total_alternatives = 0.
C18_NoSelfAlternative ==
    altOut.called =>
        /\ \A i \in 1..Len(altOut.merged) :
              altOut.merged[i].skill.id # altOut.primary_skill.id
        /\ \A i \in 1..Len(altOut.result.alternatives) :
              altOut.result.alternatives[i].skill.id # altOut.primary_skill.id
        /\ (\A i \in 1..Len(skills) : skills[i].id = altOut.primary_skill.id) =>
              /\ altOut.result.alternatives = <<>>
              /\ altOut.result.total_alternatives = 0

\* the primary skill is in the catalogue, carries the keyword "robust" of the
\* more_advanced pass and fits the problem type, and alternatives were found
C18_Witness ==
    /\ altOut.called
    /\ \E i \in 1..Len(skills) : skills[i] = altOut.primary_skill
    /\ Contains("robust", Lower(altOut.primary_skill.description))
    /\ _is_compatible_problem_type(altOut.primary_skill, altOut.problem_type)
    /\ Len(altOut.result.alternatives) >= 1

\* C6: the alternatives of every AlternativeSet returned by find_alternatives
\* hold no two entries with the same (skill id, alternative_type).
C6_DedupLaw ==
    altOut.called =>
        LET a == altOut.result.alternatives
        IN \A i, j \in 1..Len(a) : AltKey(a[i]) = AltKey(a[j]) => i = j

\* the five passes produced the same (skill id, alternative_type) twice, and
\* the cap left room for both
C6_Witness ==
    /\ altOut.called
    /\ \E i, j \in 1..Len(altOut.merged) :
          i < j /\ AltKey(altOut.merged[i]) = AltKey(altOut.merged[j])
    /\ Len(altOut.result.alternatives) >= 2
    /\ Len(altOut.result.alternatives) = altOut.max_alternatives
    /\ altOut.result.total_alternatives < Len(altOut.merged)

\* C20: at every time, the type_group stored on every skill of the index
\* equals the grouping derived from its category; in particular right after
\* a SkillMetadata constructed without an explicit type_group is added, and
\* after SkillEditor.update_category or bulk_update changed a category.
C20_TypeGroupFollowsCategory ==
    \A i \in 1..Len(skills) :
        skills[i].type_group = category_type_group(skills[i].category)

\* C21: starting from an empty index, after any sequence of add_skill (modes
\* merge, overwrite, skip), batch_add_skills, remove_skill and clear, no two
\* skills of the index have the same id.
C21_UniqueIds ==
    \A i, j \in 1..Len(skills) : skills[i].id = skills[j].id => i = j

\* the third operation was add_skill in overwrite mode of an id the index
\* held, and the index holds two skills or more
C21_Witness ==
    /\ editOut.op = "add_skill"
    /\ editOut.mode = "overwrite"
    /\ editOut.found = <<TRUE>>
    /\ Len(skills) >= 2
    /\ editOut.ops = 3

C22_AllIds == {s.id : s \in IndexPool} \cup IndexIds

C22_Absent(id) == get_skill(TheIndex, id) = None

\* what the call that led to the next state adds: the ids add_skill and
\* batch_add_skills were given
C22_AddedNext ==
    IF editOut'.op \in {"add_skill", "batch_add_skills"}
    THEN {editOut'.skill_ids[i] : i \in 1..Len(editOut'.skill_ids)}
    ELSE {}

C22_StaysAbsent ==
    \A id \in C22_AllIds :
        (C22_Absent(id) /\ id \notin C22_AddedNext) => C22_Absent(id)'

C22_AfterCall ==
    /\ (editOut.op = "add_skill" /\ editOut.mode \in {"merge", "overwrite"}) =>
           get_skill(TheIndex, editOut.args[1].id) = editOut.args[1]
    /\ editOut.op = "remove_skill" =>
           /\ C22_Absent(editOut.skill_ids[1])
           /\ editOut.returned = editOut.found[1]
    /\ editOut.op = "clear" => \A id \in C22_AllIds : C22_Absent(id)
    /\ ~editOut.called => \A id \in C22_AllIds : C22_Absent(id)

\* C22: after add_skill(s) in merge or overwrite mode get_skill(s.id) returns
\* s; get_skill of an id that was never added (absent at the start and named
\* by no add since), or that remove_skill or clear removed, returns None;
\* remove_skill(id) returns true iff a skill of that id was present.
C22_LookupRoundTrip == []C22_AfterCall /\ [][C22_StaysAbsent]_vars

\* add_skill in merge mode has replaced the t-test held by the index with a
\* t-test of another category
C22_Witness ==
    /\ editOut.op = "add_skill"
    /\ editOut.mode = "merge"
    /\ editOut.found = <<TRUE>>
    /\ editOut.args = <<[TTest EXCEPT !.category = "algorithm"]>>
    /\ "statistical_method" \in DOMAIN indexMeta.categories
    /\ Len(skills) = 1

\* categories.get(c, 0)
C29_Counter(c) ==
    IF c \in DOMAIN indexMeta.categories THEN indexMeta.categories[c] ELSE 0

C29_Agree ==
    /\ indexMeta.total_skills = Len(skills)
    /\ \A c \in SkillCategory :
          C29_Counter(c) = Cardinality({i \in 1..Len(skills) : skills[i].category = c})

C29_IndexOps == {"add_skill", "batch_add_skills", "remove_skill", "clear"}

\* C29: after any sequence of add_skill (any mode, including the replacement
\* of a skill by one of another category), batch_add_skills, remove_skill and
\* clear, categories[c] is the number of skills of category c for every c and
\* total_skills is the number of skills: the counters agree at the start and
\* each of these operations keeps them agreeing.
C29_CountersAgree ==
    [][(C29_Agree /\ editOut'.op \in C29_IndexOps) => C29_Agree']_vars

\* the category sub-score the classified problem type calls for, in tenths
C23_FromClassifiedType(skill, problem_type) ==
    IF problem_type \in DOMAIN category_map
       /\ skill.category = category_map[problem_type]
    THEN 10
    ELSE IF skill.category = "statistical_method" THEN 7 ELSE 3

\* C23: the category sub-score of match is determined by the classified
\* problem type passed to match: 1.0 iff the skill's category is the category
\* mapped from that type, otherwise 0.7 for a statistical_method skill,
\* otherwise 0.3, also when the problem_type string of the problem features
\* differs from the classified type.
C23_CategoryFromClassifiedType ==
    matchOut.called =>
        \A i \in 1..Len(matchOut.results) :
            matchOut.results[i].sub_scores.category_match
                = C23_FromClassifiedType(matchOut.results[i].skill,
                                         problem.problem_type)

\* the four values of the data-type sub-score, in tenths
C24_FourValues(skill_types, problem_types) ==
    IF skill_types = {} \/ problem_types = {} THEN 5
    ELSE IF "mixed" \in skill_types \/ problem_types \subseteq skill_types THEN 10
    ELSE IF skill_types \cap problem_types # {} THEN 6
    ELSE 2

\* C24: the data-type sub-score is 0.5 if the skill's input types or the
\* problem's data types are empty; else 1.0 if the skill declares mixed or its
\* input types are a superset of the problem's; else 0.6 if the two sets
\* overlap; else 0.2, for every pair of sets, problem sets that contain mixed
\* included.
C24_DataTypeScore ==
    matchOut.called =>
        \A i \in 1..Len(matchOut.results) :
            matchOut.results[i].sub_scores.data_type_match
                = C24_FourValues(Range(matchOut.results[i].skill.input_data_types),
                                 Range(problem.features.data_types))

\* the requested format and the format the skill declares contain one another
C25_TextualMatch(skill, output_format) ==
    /\ skill.output_format # ""
    /\ \/ Contains(Lower(output_format), Lower(skill.output_format))
       \/ Contains(Lower(skill.output_format), Lower(output_format))

\* C25: when a specific output format is requested, the output-format
\* sub-score is 1.0 only if the requested format textually matches the format
\* the skill declares; a skill that declares no output format scores 0.8 or
\* 0.5, never 1.0.
C25_OutputFormatScore ==
    (matchOut.called /\ problem.output_format \notin {"", "unknown"}) =>
        \A i \in 1..Len(matchOut.results) :
            LET r == matchOut.results[i]
            IN /\ r.sub_scores.output_format_match = 10 =>
                      C25_TextualMatch(r.skill, problem.output_format)
               /\ r.skill.output_format = "" =>
                      r.sub_scores.output_format_match \in {8, 5}

\* C26: check_prerequisites_sync is the synchronous version of
\* check_prerequisites: for every skill and every list of available skills
\* both return the same prerequisites list, satisfied_count, missing_count,
\* all_satisfied and warning_message.
C26_SyncAgrees ==
    prereqOut.called =>
        LET sync == check_prerequisites_sync(prereqOut.skill, skills)
        IN /\ sync.prerequisites = prereqOut.result.prerequisites
           /\ sync.satisfied_count = prereqOut.result.satisfied_count
           /\ sync.missing_count = prereqOut.result.missing_count
           /\ sync.all_satisfied = prereqOut.result.all_satisfied
           /\ sync.warning_message = prereqOut.result.warning_message

\* C27: the prerequisites list check_prerequisites returns never holds two
\* entries of the same skill_id and never holds the id of the checked skill,
\* whatever declared and inferred (descriptive/summary, correlation,
\* shared-scipy) prerequisites apply.
C27_NoDuplicateNoSelf ==
    prereqOut.called =>
        LET p == prereqOut.result.prerequisites
        IN /\ \A i, j \in 1..Len(p) : p[i].skill_id = p[j].skill_id => i = j
           /\ \A i \in 1..Len(p) : p[i].skill_id # prereqOut.skill.id

C27_NoSelf ==
    prereqOut.called =>
        \A i \in 1..Len(prereqOut.result.prerequisites) :
            prereqOut.result.prerequisites[i].skill_id # prereqOut.skill.id

C30_SixReasons ==
    matchOut.called =>
        \A i \in 1..Len(matchOut.results) :
            /\ Len(matchOut.results[i].match_reasons) = 6
            /\ matchOut.results[i].mismatches = <<>>
            /\ matchOut.results[i].confidence = 1000

C30_TieKeepsOrder ==
    (recOut.called /\ recOut.ranking_method = "confidence_score") =>
        LET r == recOut.recommendations
        IN /\ \A i, j \in 1..Len(r) : r[i].final_score = r[j].final_score
           /\ \A i \in 1..Len(r) : r[i].skill = recOut.match_results[i].skill

====
